---------------------------- MODULE Spec2Model ----------------------------
(***************************************************************************)
(* Model of yt-stream-discord-sync: the relay service of the Vencord       *)
(* plugin's native half (an HTTP server holding the latest timestamp       *)
(* record and a one-shot redirect) and the timestamp resolver of the       *)
(* plugin's renderer half (findMessageByTimestamp).                        *)
(***************************************************************************)
EXTENDS Integers, Sequences, FiniteSets, Bags, TLC

(***************************************************************************)
(* JavaScript values, as far as the handlers look at them.  A string is a  *)
(* sequence of one-character strings so that includes() and Date parsing   *)
(* are computed from its characters.  A JSON object is a function from     *)
(* its keys to values.                                                     *)
(***************************************************************************)
Undefined == [t |-> "undefined"]

Null == [t |-> "null"]

JNum(n) == [t |-> "number", n |-> n]

JStr(s) == [t |-> "string", s |-> s]

JObj(f) == [t |-> "object", f |-> f]

\* ToBoolean: the falsy values are undefined, null, 0 and "".
Truthy(v) ==
    CASE v.t = "undefined" -> FALSE
      [] v.t = "null" -> FALSE
      [] v.t = "number" -> v.n # 0
      [] v.t = "string" -> Len(v.s) > 0
      [] OTHER -> TRUE

\* data.key: reading a property of null or undefined throws a TypeError.
Throws(v) == v.t \in {"undefined", "null"}

Get(v, k) ==
    IF v.t = "object" /\ k \in DOMAIN v.f THEN v.f[k] ELSE Undefined

\* String.prototype.includes for a one-character needle.
Includes(s, c) == \E i \in 1..Len(s) : s[i] = c

(***************************************************************************)
(* new Date(string).getTime().  The ECMAScript date-time string format     *)
(*   YYYY-MM-DD                                                            *)
(*   YYYY-MM-DD(T| )HH:mm:ss[.sss][Z|+HH:mm|-HH:mm]                        *)
(* (the blank separator is V8's extension); every other string is NaN.     *)
(* The time value is the pair <<days since the epoch, ms within the day>>: *)
(* a 2025 instant in ms does not fit TLC's integers.  A form without zone  *)
(* is local time; it is read with offset 0, which does not affect whether  *)
(* the result is NaN.                                                      *)
(***************************************************************************)
NaN == <<"NaN">>

Digits == <<"0", "1", "2", "3", "4", "5", "6", "7", "8", "9">>

IsDigit(c) == \E d \in 1..10 : Digits[d] = c

DigitVal(c) == (CHOOSE d \in 1..10 : Digits[d] = c) - 1

\* The n-digit number at s[i..i+n-1], or -1 when a character is not a digit.
RECURSIVE Num(_, _, _)
Num(s, i, n) ==
    IF n = 0 THEN 0
    ELSE IF i + n - 1 > Len(s) \/ ~IsDigit(s[i + n - 1]) THEN -1
    ELSE LET hi == Num(s, i, n - 1)
         IN  IF hi < 0 THEN -1 ELSE 10 * hi + DigitVal(s[i + n - 1])

IsLeap(y) == (y % 4 = 0 /\ y % 100 # 0) \/ y % 400 = 0

DaysInMonth(y, m) ==
    IF m = 2 THEN (IF IsLeap(y) THEN 29 ELSE 28)
    ELSE IF m \in {4, 6, 9, 11} THEN 30 ELSE 31

LeapsThrough(y) == (y \div 4) - (y \div 100) + (y \div 400)

RECURSIVE DaysBeforeMonth(_, _)
DaysBeforeMonth(y, m) ==
    IF m = 1 THEN 0 ELSE DaysBeforeMonth(y, m - 1) + DaysInMonth(y, m - 1)

DayNumber(y, m, d) ==
    365 * (y - 1970) + (LeapsThrough(y - 1) - LeapsThrough(1969))
        + DaysBeforeMonth(y, m) + (d - 1)

\* The date part YYYY-MM-DD at s[1..10]: its day number, or -1.  V8 takes a
\* day up to 31 in every month and carries the excess into the next month.
DatePart(s) ==
    LET y == Num(s, 1, 4)
        m == Num(s, 6, 2)
        d == Num(s, 9, 2)
    IN  IF Len(s) < 10 \/ s[5] # "-" \/ s[8] # "-" THEN -1
        ELSE IF y < 0 \/ m < 1 \/ m > 12 \/ d < 1 \/ d > 31 THEN -1
        ELSE DayNumber(y, m, d)

\* The time part HH:mm:ss[.sss] at s[12..]: <<ms within the day, next index>>,
\* or <<-1, 0>>.
TimePart(s) ==
    LET h  == Num(s, 12, 2)
        mi == Num(s, 15, 2)
        se == Num(s, 18, 2)
        hasMs == Len(s) >= 20 /\ s[20] = "."
        ms == IF hasMs THEN Num(s, 21, 3) ELSE 0
    IN  IF Len(s) < 19 \/ s[14] # ":" \/ s[17] # ":" THEN <<-1, 0>>
        ELSE IF h < 0 \/ h > 24 \/ mi < 0 \/ mi > 59 \/ se < 0 \/ se > 59
             THEN <<-1, 0>>
        ELSE IF ms < 0 \/ (h = 24 /\ mi + se + ms > 0) THEN <<-1, 0>>
        ELSE <<((h * 60 + mi) * 60 + se) * 1000 + ms,
               IF hasMs THEN 24 ELSE 20>>

\* The zone at s[i..]: <<TRUE, offset in minutes>> or <<FALSE, 0>>.
ZonePart(s, i) ==
    IF i > Len(s) THEN <<TRUE, 0>>
    ELSE IF s[i] = "Z" THEN <<Len(s) = i, 0>>
    ELSE IF s[i] \in {"+", "-"} THEN
        LET h  == Num(s, i + 1, 2)
            mi == Num(s, i + 4, 2)
            ok == Len(s) = i + 5 /\ s[i + 3] = ":" /\ h >= 0 /\ h <= 23
                    /\ mi >= 0 /\ mi <= 59
        IN  IF ~ok THEN <<FALSE, 0>>
            ELSE <<TRUE, (IF s[i] = "+" THEN 1 ELSE -1) * (h * 60 + mi)>>
    ELSE <<FALSE, 0>>

MsPerDay == 24 * 60 * 60 * 1000

DateParse(s) ==
    LET day == DatePart(s)
    IN  IF day < 0 THEN NaN
        ELSE IF Len(s) = 10 THEN <<day, 0>>
        ELSE IF s[11] \notin {"T", " "} THEN NaN
        ELSE LET tp == TimePart(s)
             IN  IF tp[1] < 0 THEN NaN
                 ELSE LET z  == ZonePart(s, tp[2])
                          ms == tp[1] - z[2] * 60000
                      IN  IF ~z[1] THEN NaN
                          ELSE <<day + (ms \div MsPerDay), ms % MsPerDay>>

IsNaN(x) == x = NaN

isValidTimestampBlankSeparator(timestamp) ==
    IF timestamp.t # "string" THEN FALSE
    ELSE /\ ~IsNaN(DateParse(timestamp.s))
         /\ (Includes(timestamp.s, "T") \/ Includes(timestamp.s, " "))
         /\ Includes(timestamp.s, "Z")

\* Date.prototype.getTime() in ms, for the instants that fit TLC's integers.
GetTime(d) == IF IsNaN(d) THEN NaN ELSE d[1] * MsPerDay + d[2]

\* isValidTimestamp(timestamp)
isValidTimestamp(timestamp) ==
    IF timestamp.t # "string" THEN FALSE
    ELSE /\ ~IsNaN(DateParse(timestamp.s))
         /\ Includes(timestamp.s, "T")
         /\ Includes(timestamp.s, "Z")

(***************************************************************************)
(* The strings the requests are drawn from.                                *)
(***************************************************************************)
\* "2025-11-28T21:00:00.000Z"
StrZulu ==
    <<"2", "0", "2", "5", "-", "1", "1", "-", "2", "8", "T",
      "2", "1", ":", "0", "0", ":", "0", "0", ".", "0", "0", "0", "Z">>

\* "2025-01-01T00:00:00.000Z"
StrZuluB ==
    <<"2", "0", "2", "5", "-", "0", "1", "-", "0", "1", "T",
      "0", "0", ":", "0", "0", ":", "0", "0", ".", "0", "0", "0", "Z">>

\* "2025-11-28"
StrDateOnly == <<"2", "0", "2", "5", "-", "1", "1", "-", "2", "8">>

\* "not a date"
StrNotADate == <<"n", "o", "t", " ", "a", " ", "d", "a", "t", "e">>

\* "2025-11-28T21:00:00.000": a local time, no zone designator
StrLocal ==
    <<"2", "0", "2", "5", "-", "1", "1", "-", "2", "8", "T",
      "2", "1", ":", "0", "0", ":", "0", "0", ".", "0", "0", "0">>

\* "2025-11-28T21:00:00+00:00": an absolute instant written with an offset
StrOffset ==
    <<"2", "0", "2", "5", "-", "1", "1", "-", "2", "8", "T",
      "2", "1", ":", "0", "0", ":", "0", "0", "+", "0", "0", ":", "0", "0">>

\* "2025-11-28 21:00:00Z": an absolute instant without the separator T
StrBlankZ ==
    <<"2", "0", "2", "5", "-", "1", "1", "-", "2", "8", " ",
      "2", "1", ":", "0", "0", ":", "0", "0", "Z">>

\* "2025-13-28T21:00:00.000Z": both markers, month 13
StrBadMonthZ ==
    <<"2", "0", "2", "5", "-", "1", "3", "-", "2", "8", "T",
      "2", "1", ":", "0", "0", ":", "0", "0", ".", "0", "0", "0", "Z">>

\* "TZ"
StrTZ == <<"T", "Z">>

\* ""
StrEmpty == <<>>


(***************************************************************************)
(* More JavaScript values: booleans, and strings whose characters no       *)
(* handler inspects (error texts, the staleness warning with its number).  *)
(***************************************************************************)
JBool(b) == [t |-> "boolean", b |-> b]

JText(x) == [t |-> "string", lit |-> x]

\* `Data may be stale (${n} seconds old)`
JStale(n) == [t |-> "string", stale |-> n]

\* { ...obj, key: value }
Spread(obj, key, value) ==
    JObj([k \in DOMAIN obj.f \cup {key} |-> IF k = key THEN value ELSE obj.f[k]])

(***************************************************************************)
(* Request bodies.  A body is the JSON text of a value, or text that       *)
(* JSON.parse rejects; the text is not modelled beyond the value it        *)
(* denotes.                                                                *)
(***************************************************************************)
Malformed == [t |-> "malformed"]

\* The records the userscript sends (getYouTubeTimestamp) and requests
\* whose gmt is missing, falsy, not a string, or not a canonical timestamp.
RecordA == JObj([gmt |-> JStr(StrZulu), currentTime |-> JNum(12), isLive |-> JBool(FALSE)])

RecordB == JObj([gmt |-> JStr(StrZuluB)])

UpdateBodies ==
    { RecordA, RecordB,
      JObj([currentTime |-> JNum(12)]),
      JObj([gmt |-> JNum(5)]),
      JObj([gmt |-> JStr(StrDateOnly)]),
      Malformed }

RedirectBodies ==
    { JObj([timestamp |-> JStr(StrZulu)]),
      JObj([timestamp |-> JStr(StrZuluB)]),
      JObj([other |-> JNum(1)]),
      JObj([timestamp |-> JStr(StrLocal)]),
      Null }

\* The values Date.now() takes when a handler runs, in ms.
Instants == {1000, 10000, 11000, 11001, 12000}

MaxRequests == 3

VARIABLES
    timestampData,      \* part_000:10
    lastUpdate,         \* part_000:11
    redirectTimestamp,  \* part_000:12
    now,                \* Date.now()
    inflight,           \* the bag of POST requests whose body has not ended yet
    nreq,               \* number of requests received so far
    nresp,              \* number of responses written so far
    last,               \* the last response written: [req, status, body, at]
    hist,               \* history: the POST requests answered 200, in order
    lastPush            \* history: the last /update answered 200 and its time

\* The renderer's module variables and the message store (index.tsx).
VARIABLES
    feed,                   \* MessageStore.getMessages(channelId)._array
    targetTimestamp,        \* index.tsx:87
    lastScrolledMessageId,  \* index.tsx:89
    lastTargetTime,         \* index.tsx:90
    result                  \* what findMessageByTimestamp returned

\* The argument and the return value of a call of isValidTimestamp.
VARIABLES timestamp, valid

\* The polling loop of the plugin.
VARIABLES
    checkInterval,          \* index.tsx:86
    lastFetchedTimestamp,   \* index.tsx:88
    isContextMenuOpen,      \* index.tsx:91
    fetching,               \* calls of fetchTimestamp that have not settled
                            \* yet, the oldest first
    enabled,                \* settings.store.enabled
    timers,                 \* the timers of setInterval not cleared
    currentChannelId,       \* index.tsx:94
    selectedChannel,        \* SelectedChannelStore.getChannelId()
    tick,                   \* what the latest step of the loop did
    lastMove,               \* the message of the latest scroll or jump
    attempts                \* calls of attemptScrollToTarget made in a row

\* The HTTP server of the relay and its start and stop requests.
VARIABLES
    server,             \* part_000:14, the number of the instance or null
    currentPort,        \* part_000:7
    instances,          \* the servers createServer has made, each with the
                        \* port it was asked to listen on and its state
    busy,               \* the ports another process listens on
    reply,              \* what the latest start or stop request returned
    calls               \* number of start and stop requests so far

\* The bodies of POST requests as they arrive.
VARIABLES
    streams,            \* the requests being read: the value sent, `body`
                        \* (part_000:90, 135), the text received so far, the
                        \* number of "data" events, and whether a chunk of
                        \* another request came between two of its own
    serial              \* the requests run one after the other, each with its
                        \* whole body, in the order their bodies ended

RelayState == <<timestampData, lastUpdate, redirectTimestamp>>

relayVars == <<timestampData, lastUpdate, redirectTimestamp, now, inflight, nreq,
               nresp, last, hist, lastPush>>

resolverVars == <<feed, targetTimestamp, lastScrolledMessageId, lastTargetTime, result>>

validatorVars == <<timestamp, valid>>

syncVars == <<enabled, timers, currentChannelId, selectedChannel>>

driverVars == <<checkInterval, lastFetchedTimestamp, isContextMenuOpen, fetching,
                tick, lastMove, attempts, syncVars>>

serviceVars == <<server, currentPort, instances, busy, reply, calls>>

streamVars == <<streams, serial>>

vars == <<relayVars, resolverVars, validatorVars, driverVars, serviceVars,
          streamVars>>

Pending == [t |-> "pending"]

RelayIdle ==
    /\ timestampData = Null
    /\ lastUpdate = Null
    /\ redirectTimestamp = Null
    /\ now = 1000
    /\ inflight = EmptyBag
    /\ nreq = 0
    /\ nresp = 0
    /\ last = [req |-> [method |-> "none", url |-> "none", body |-> Null],
               status |-> 0, body |-> Null, at |-> 0]
    /\ hist = <<>>
    /\ lastPush = Null

ResolverIdle ==
    /\ feed = <<>>
    /\ targetTimestamp = Null
    /\ lastScrolledMessageId = Null
    /\ lastTargetTime = Null
    /\ result = Pending

ValidatorIdle ==
    /\ timestamp = Undefined
    /\ valid = Pending

\* No step of the polling loop has run: no fetch result, no call of
\* findMessageByTimestamp, no scroll.
NoTick ==
    [kind |-> "none", data |-> Null, changed |-> FALSE, from |-> Null,
     called |-> FALSE, lsid |-> Null, result |-> Null, moved |-> Null,
     ticks |-> 0, late |-> FALSE]

DriverIdle ==
    /\ checkInterval = Null
    /\ lastFetchedTimestamp = Null
    /\ isContextMenuOpen = FALSE
    /\ fetching = <<>>
    /\ tick = NoTick
    /\ lastMove = Null
    /\ attempts = 0
    /\ enabled = FALSE
    /\ timers = {}

\* No channel is selected.
NoChannel ==
    /\ currentChannelId = Null
    /\ selectedChannel = Null

DEFAULT_PORT == 8080

\* No start or stop request has returned yet.
NoReply == [op |-> "none", success |-> FALSE, port |-> 0, instance |-> 0]

\* The server started at module load listens on the default port
\* (part_000:229-234).
ServiceRunning ==
    /\ server = JNum(1)
    /\ currentPort = DEFAULT_PORT
    /\ instances = <<[port |-> DEFAULT_PORT, state |-> "listening"]>>
    /\ busy = {}
    /\ reply = NoReply
    /\ calls = 0

\* No POST request is being read.
StreamsIdle ==
    /\ streams = <<>>
    /\ serial = [timestampData |-> Null, lastUpdate |-> Null,
                 redirectTimestamp |-> Null, status |-> 0, body |-> Null]

Requests ==
    {[method |-> "GET", url |-> "/ping", body |-> Null]}
      \cup {[method |-> "POST", url |-> "/update", body |-> b] : b \in UpdateBodies}
      \cup {[method |-> "POST", url |-> "/redirect", body |-> b] : b \in RedirectBodies}

(***************************************************************************)
(* The handlers, as functions of the state they read.  Each returns the    *)
(* response and the new values of the three module variables.              *)
(***************************************************************************)
Outcome(status, body, data, lu, redirect) ==
    [status |-> status, body |-> body, timestampData |-> data,
     lastUpdate |-> lu, redirectTimestamp |-> redirect]

ErrorBody(message) == JObj([error |-> JText(message)])

\* Math.round(ms / 1000) for ms >= 0
RoundSeconds(ms) == (ms + 500) \div 1000

IsStaleAtThreshold(t, lu) == t - lu.n >= 10 * 1000

\* age > 10, with age = (Date.now() - lastUpdate) / 1000
IsStale(t, lu) == t - lu.n > 10 * 1000

PingNoData(data, lu, redirect) ==
    Outcome(404, ErrorBody("No timestamp data found"), data, lu, redirect)

PingFoundGmtOnly(data, lu, redirect, t) ==
    Outcome(200, JObj([gmt |-> data.f["gmt"]]), data, lu, redirect)

PingFoundStoresResponse(data, lu, redirect, t) ==
    LET responseData ==
            IF Truthy(lu) /\ IsStale(t, lu)
            THEN Spread(JObj(data.f), "warning", JStale(RoundSeconds(t - lu.n)))
            ELSE JObj(data.f)
    IN  Outcome(200, responseData, responseData, lu, redirect)

\* GET /ping with data: the copy, the staleness check, the 200.
PingFound(data, lu, redirect, t) ==
    LET copy == JObj(data.f)
        responseData ==
            IF Truthy(lu) /\ IsStale(t, lu)
            THEN Spread(copy, "warning", JStale(RoundSeconds(t - lu.n)))
            ELSE copy
    IN  Outcome(200, responseData, data, lu, redirect)

\* GET /ping
PingHandler(data, lu, redirect, t) ==
    IF ~Truthy(data) THEN PingNoData(data, lu, redirect)
    ELSE PingFound(data, lu, redirect, t)

UpdateRejectClearsRedirect(message, data, lu, redirect) ==
    Outcome(400, ErrorBody(message), data, lu, Null)

\* POST /update: a 400
UpdateReject(message, data, lu, redirect) ==
    Outcome(400, ErrorBody(message), data, lu, redirect)

UpdateAcceptKeepsRedirect(body, redirect, t) ==
    LET response == JObj([success |-> JBool(TRUE), received |-> Get(body, "gmt")])
    IN  IF Truthy(redirect)
        THEN Outcome(200, Spread(response, "redirect", redirect), body, JNum(t), redirect)
        ELSE Outcome(200, response, body, JNum(t), redirect)

UpdateAcceptNeverAttaches(body, redirect, t) ==
    LET response == JObj([success |-> JBool(TRUE), received |-> Get(body, "gmt")])
    IN  Outcome(200, response, body, JNum(t), redirect)

\* POST /update: the record is stored and the pending redirect handed over
UpdateAccept(body, redirect, t) ==
    LET response == JObj([success |-> JBool(TRUE), received |-> Get(body, "gmt")])
    IN  IF Truthy(redirect)
        THEN Outcome(200, Spread(response, "redirect", redirect), body, JNum(t), Null)
        ELSE Outcome(200, response, body, JNum(t), redirect)

\* POST /update, on the end of the body
UpdateHandler(body, data, lu, redirect, t) ==
    IF body = Malformed \/ Throws(body)
    THEN UpdateReject("Invalid JSON data", data, lu, redirect)
    ELSE IF ~Truthy(Get(body, "gmt")) \/ ~isValidTimestamp(Get(body, "gmt"))
    THEN UpdateReject("Invalid or missing gmt timestamp", data, lu, redirect)
    ELSE UpdateAccept(body, redirect, t)

RedirectRejectClearsPending(message, data, lu, redirect) ==
    Outcome(400, ErrorBody(message), data, lu, Null)

\* POST /redirect: a 400
RedirectReject(message, data, lu, redirect) ==
    Outcome(400, ErrorBody(message), data, lu, redirect)

RedirectAcceptFirstWins(body, data, lu, redirect) ==
    LET kept == IF Truthy(redirect) THEN redirect ELSE Get(body, "timestamp")
    IN  Outcome(200, JObj([success |-> JBool(TRUE), redirect |-> kept]), data, lu, kept)

\* POST /redirect: the timestamp becomes the pending redirect
RedirectAccept(body, data, lu, redirect) ==
    Outcome(200,
            JObj([success |-> JBool(TRUE), redirect |-> Get(body, "timestamp")]),
            data, lu, Get(body, "timestamp"))

\* POST /redirect, on the end of the body
RedirectHandler(body, data, lu, redirect, t) ==
    IF body = Malformed \/ Throws(body)
    THEN RedirectReject("Invalid JSON data", data, lu, redirect)
    ELSE IF ~Truthy(Get(body, "timestamp"))
    THEN RedirectReject("Missing timestamp field", data, lu, redirect)
    ELSE IF ~isValidTimestamp(Get(body, "timestamp"))
    THEN RedirectReject("Invalid timestamp format", data, lu, redirect)
    ELSE RedirectAccept(body, data, lu, redirect)

\* res.writeHead / res.end, and the assignments the handler made.
Apply(req, out) ==
    /\ timestampData' = out.timestampData
    /\ lastUpdate' = out.lastUpdate
    /\ redirectTimestamp' = out.redirectTimestamp
    /\ nresp' = nresp + 1
    /\ last' = [req |-> req, status |-> out.status, body |-> out.body, at |-> now]

\* What the client of a POST answered 200 saw: for /redirect the timestamp it
\* sent, for /update the response's redirect field (undefined when it has none).
Event(req, out) ==
    [url |-> req.url,
     redirect |-> IF req.url = "/redirect" THEN Get(req.body, "timestamp")
                  ELSE Get(out.body, "redirect")]

\* The relay after the module is loaded (part_000:7-14, 229-234).
Init ==
    /\ RelayIdle
    /\ ResolverIdle
    /\ ValidatorIdle
    /\ DriverIdle
    /\ NoChannel
    /\ ServiceRunning
    /\ StreamsIdle

\* A GET /ping request: answered when it is received.
Ping(req) ==
    /\ nreq < MaxRequests
    /\ req.method = "GET" /\ req.url = "/ping"
    /\ nreq' = nreq + 1
    /\ Apply(req, PingHandler(timestampData, lastUpdate, redirectTimestamp, now))
    /\ UNCHANGED <<now, inflight, hist, lastPush, resolverVars, validatorVars, driverVars, serviceVars, streamVars>>

\* A POST request is received: its body is buffered until it ends.
ReceivePost(req) ==
    /\ nreq < MaxRequests
    /\ req.method = "POST"
    /\ nreq' = nreq + 1
    /\ inflight' = inflight (+) SetToBag({req})
    /\ UNCHANGED <<timestampData, lastUpdate, redirectTimestamp, now, nresp, last,
                   hist, lastPush, resolverVars, validatorVars, driverVars, serviceVars, streamVars>>

\* The body of a POST /update request ends.
EndUpdate(r) ==
    /\ BagIn(r, inflight) /\ r.url = "/update"
    /\ inflight' = inflight (-) SetToBag({r})
    /\ LET out == UpdateHandler(r.body, timestampData, lastUpdate,
                                redirectTimestamp, now)
       IN  /\ Apply(r, out)
           /\ hist' = IF out.status = 200 THEN Append(hist, Event(r, out)) ELSE hist
           /\ lastPush' = IF out.status = 200 THEN [rec |-> r.body, at |-> now]
                           ELSE lastPush
    /\ UNCHANGED <<now, nreq, resolverVars, validatorVars, driverVars, serviceVars, streamVars>>

\* The body of a POST /redirect request ends.
EndRedirect(r) ==
    /\ BagIn(r, inflight) /\ r.url = "/redirect"
    /\ inflight' = inflight (-) SetToBag({r})
    /\ LET out == RedirectHandler(r.body, timestampData, lastUpdate,
                                  redirectTimestamp, now)
       IN  /\ Apply(r, out)
           /\ hist' = IF out.status = 200 THEN Append(hist, Event(r, out)) ELSE hist
    /\ UNCHANGED <<now, nreq, lastPush, resolverVars, validatorVars, driverVars, serviceVars, streamVars>>

\* Time passes between two handler runs.
Advance(t) ==
    /\ t \in Instants /\ t > now
    /\ now' = t
    /\ UNCHANGED <<timestampData, lastUpdate, redirectTimestamp, inflight, nreq,
                   nresp, last, hist, lastPush, resolverVars, validatorVars, driverVars, serviceVars, streamVars>>

Next ==
    \/ \E req \in Requests : Ping(req)
    \/ \E req \in Requests : ReceivePost(req)
    \/ \E r \in Requests : EndUpdate(r)
    \/ \E r \in Requests : EndRedirect(r)
    \/ \E t \in Instants : Advance(t)

Spec == Init /\ [][Next]_vars

(***************************************************************************)
(* Properties of the relay.                                                *)
(***************************************************************************)
HasField(obj, k) == obj.t = "object" /\ k \in DOMAIN obj.f

IsPing(req) == req.method = "GET" /\ req.url = "/ping"

IsUpdate(req) == req.method = "POST" /\ req.url = "/update"

IsRedirect(req) == req.method = "POST" /\ req.url = "/redirect"

\* A response was written in this step.
Responded == nresp' = nresp + 1

\* C1: a push response carries a redirect field exactly when a setRedirect was
\* accepted after the previous accepted push (or since the start), so a
\* redirect is handed over by the first accepted push after it and by no later
\* one; the field it carries is then a value a setRedirect stored.
C1_RedirectOneShot ==
    \A i \in 1..Len(hist) :
        hist[i].url = "/update" =>
            /\ (hist[i].redirect # Undefined
                    <=> (i > 1 /\ hist[i - 1].url = "/redirect"))
            /\ hist[i].redirect # Undefined =>
                    \E j \in 1..(i - 1) :
                        /\ hist[j].url = "/redirect"
                        /\ hist[j].redirect = hist[i].redirect

\* A redirect was delivered by one push and the next accepted push carried none.
C1_Witness ==
    \E i \in 1..(Len(hist) - 2) :
        /\ hist[i].url = "/redirect"
        /\ hist[i + 1].url = "/update" /\ hist[i + 1].redirect = hist[i].redirect
        /\ hist[i + 2].url = "/update" /\ hist[i + 2].redirect = Undefined

\* C2: the redirect a push delivers is the value of the most recently accepted
\* setRedirect; a value replaced before any accepted push is not delivered.
C2_LastWriteWins ==
    \A i \in 2..Len(hist) :
        (hist[i].url = "/update" /\ hist[i - 1].url = "/redirect") =>
            /\ hist[i].redirect = hist[i - 1].redirect
            /\ \A j \in 1..(i - 2) :
                   (hist[j].url = "/redirect" /\ hist[j].redirect # hist[i - 1].redirect)
                       => hist[i].redirect # hist[j].redirect

\* setRedirect(X), setRedirect(Y) with Y # X, then a push that delivered Y.
C2_Witness ==
    \E i \in 1..(Len(hist) - 2) :
        /\ hist[i].url = "/redirect"
        /\ hist[i + 1].url = "/redirect" /\ hist[i + 1].redirect # hist[i].redirect
        /\ hist[i + 2].url = "/update" /\ hist[i + 2].redirect = hist[i + 1].redirect

\* The body is a JSON object whose gmt is missing, not a string, or a string
\* the validator rejects.
InvalidGmt(body) ==
    /\ body.t = "object"
    /\ \/ ~HasField(body, "gmt")
       \/ body.f["gmt"].t # "string"
       \/ ~isValidTimestamp(body.f["gmt"])

\* C3: a push with a missing, non-string or invalid gmt is answered 400 with an
\* error and changes nothing: latest, receivedAt and the pending redirect keep
\* their values, and the response carries no redirect.
C3_InvalidPushRejected ==
    [][(Responded /\ IsUpdate(last'.req) /\ InvalidGmt(last'.req.body)) =>
          /\ last'.status = 400
          /\ HasField(last'.body, "error")
          /\ ~HasField(last'.body, "redirect")
          /\ UNCHANGED <<RelayState, hist, lastPush>>]_vars

\* An invalid push was rejected while a record was stored and a redirect pending.
C3_Witness ==
    /\ IsUpdate(last.req) /\ InvalidGmt(last.req.body) /\ last.status = 400
    /\ timestampData # Null
    /\ redirectTimestamp # Null

\* The fields of a read response other than the staleness warning.
RecordFields(body) == DOMAIN body.f \ {"warning"}

C5_StaleOverTenSeconds ==
    (IsPing(last.req) /\ last.status = 200) =>
        LET age == last.at - lastPush.at
        IN  /\ HasField(last.body, "warning") <=> age > 10000
            /\ (HasField(last.body, "warning") /\ age % 1000 = 0) =>
                   last.body.f["warning"] = JStale(age \div 1000)

\* A read 11 s after the push: the warning names 11.
C5_Witness ==
    /\ IsPing(last.req) /\ last.status = 200
    /\ last.at - lastPush.at = 11000
    /\ last.body.f["warning"] = JStale(11)

\* C6: a read changes nothing of RelayState, whether it fails with NoData or
\* succeeds, fresh or stale; with a record stored it succeeds with that
\* record's gmt.
C6_ReadIsPure ==
    [][(Responded /\ IsPing(last'.req)) =>
          /\ UNCHANGED <<RelayState, hist, lastPush>>
          /\ IF timestampData = Null
             THEN last'.status = 404
             ELSE /\ last'.status = 200
                  /\ last'.body.f["gmt"] = timestampData.f["gmt"]]_vars

\* A stale read answered with the warning while a redirect stayed pending.
C6_Witness ==
    /\ IsPing(last.req) /\ last.status = 200
    /\ HasField(last.body, "warning")
    /\ ~HasField(timestampData, "warning")
    /\ redirectTimestamp # Null

\* The body is a JSON object whose timestamp is absent or rejected by the
\* validator.
InvalidRedirect(body) ==
    /\ body.t = "object"
    /\ \/ ~HasField(body, "timestamp")
       \/ ~isValidTimestamp(body.f["timestamp"])

\* C7: a setRedirect without a valid timestamp is answered 400 and changes
\* nothing; one with a valid timestamp stores exactly that value as the pending
\* redirect, returns it, and leaves latest and receivedAt alone.
C7_SetRedirect ==
    [][(Responded /\ IsRedirect(last'.req) /\ last'.req.body.t = "object") =>
          IF InvalidRedirect(last'.req.body)
          THEN /\ last'.status = 400
               /\ UNCHANGED RelayState
          ELSE /\ last'.status = 200
               /\ redirectTimestamp' = last'.req.body.f["timestamp"]
               /\ last'.body.f["redirect"] = last'.req.body.f["timestamp"]
               /\ UNCHANGED <<timestampData, lastUpdate>>]_vars

\* A setRedirect was rejected while another redirect was pending and a record
\* stored.
C7_Witness ==
    /\ IsRedirect(last.req) /\ InvalidRedirect(last.req.body) /\ last.status = 400
    /\ redirectTimestamp # Null
    /\ timestampData # Null

(***************************************************************************)
(* The Timestamp Validator on its own: one call of isValidTimestamp on a   *)
(* value drawn from the strings a date, a separator, a time and a zone     *)
(* compose, the other sample strings, and values that are not strings.     *)
(***************************************************************************)
DateTexts ==
    { StrDateOnly,
      <<"2", "0", "2", "5", "-", "1", "3", "-", "2", "8">>,
      <<"2", "0", "2", "5", "-", "0", "2", "-", "3", "0">> }

SeparatorTexts == { <<"T">>, <<" ">>, <<"x">> }

TimeTexts ==
    { <<"2", "1", ":", "0", "0", ":", "0", "0">>,
      <<"2", "1", ":", "0", "0", ":", "0", "0", ".", "0", "0", "0">>,
      <<"2", "1", ":", "6", "0", ":", "0", "0">> }

ZoneTexts ==
    { <<"Z">>, <<>>,
      <<"+", "0", "0", ":", "0", "0">>,
      <<"-", "0", "5", ":", "0", "0">> }

ValidatorInputs ==
    { JStr(d \o p \o c \o z) :
        d \in DateTexts, p \in SeparatorTexts, c \in TimeTexts, z \in ZoneTexts }
      \cup { JStr(d) : d \in DateTexts }
      \cup { JStr(StrZuluB), JStr(StrNotADate), JStr(StrTZ), JStr(StrEmpty) }
      \cup { Undefined, Null, JNum(0), JNum(1764363600), JBool(TRUE),
             JObj([gmt |-> JStr(StrZulu)]) }

InitValidator ==
    /\ RelayIdle
    /\ ResolverIdle
    /\ DriverIdle
    /\ NoChannel
    /\ ServiceRunning
    /\ StreamsIdle
    /\ timestamp \in ValidatorInputs
    /\ valid = Pending

\* isValidTimestamp(timestamp) is called and returns.
Validate ==
    /\ valid = Pending
    /\ valid' = JBool(isValidTimestamp(timestamp))
    /\ UNCHANGED <<timestamp, relayVars, resolverVars, driverVars, serviceVars, streamVars>>

NextValidator == Validate

SpecValidator == InitValidator /\ [][NextValidator]_vars

\* C8: the validator accepts a value exactly when it is a string that parses
\* as an instant and contains both "T" and "Z"; a non-string, an unparseable
\* string and a parseable string lacking either marker are rejected.
C8_ValidatorAccepts ==
    valid # Pending =>
        /\ valid.b <=> /\ timestamp.t = "string"
                       /\ ~IsNaN(DateParse(timestamp.s))
                       /\ \E i \in 1..Len(timestamp.s) : timestamp.s[i] = "T"
                       /\ \E i \in 1..Len(timestamp.s) : timestamp.s[i] = "Z"
        /\ timestamp = JStr(StrZulu) => valid.b
        /\ timestamp \in { JStr(StrDateOnly), JStr(StrNotADate), JStr(StrLocal),
                           JStr(StrOffset), JStr(StrBlankZ), JStr(StrBadMonthZ),
                           JStr(StrTZ), JNum(1764363600), Null, Undefined }
               => ~valid.b

\* A string that parses as an instant and has the Z but no T was rejected.
C8_Witness ==
    /\ valid = JBool(FALSE)
    /\ timestamp.t = "string"
    /\ ~IsNaN(DateParse(timestamp.s))
    /\ Includes(timestamp.s, "Z")
    /\ ~Includes(timestamp.s, "T")

(***************************************************************************)
(* The Timestamp Resolver: findMessageByTimestamp (index.tsx).  A message  *)
(* is [id, timestamp]; timestamp is <<>> when the message has none and     *)
(* <<ms>> otherwise (message.timestamp.valueOf()).  Sequences are indexed  *)
(* from 1 here and from 0 in the source.                                   *)
(***************************************************************************)
Abs(x) == IF x < 0 THEN -x ELSE x

\* The penalty added to a message before the target in forward mode.
Penalty == 1000000

MovingForwardOrSame(targetTime, ltt) == ltt # Null /\ targetTime >= ltt.n

\* lastTargetTime !== null && targetTime > lastTargetTime
MovingForward(targetTime, ltt) == ltt # Null /\ targetTime > ltt.n

DiffNoPenalty(messageTime, targetTime, ltt) == Abs(messageTime - targetTime)

\* The diff of one message (index.tsx:138-149, and again 172-181, 189-198).
Diff(messageTime, targetTime, ltt) ==
    IF MovingForward(targetTime, ltt)
    THEN IF messageTime >= targetTime
         THEN messageTime - targetTime
         ELSE targetTime - messageTime + Penalty
    ELSE Abs(messageTime - targetTime)

\* messageArray.findIndex(m => m.id === id), or 0 when there is none.
FindIndex(messageArray, id) ==
    IF \E i \in 1..Len(messageArray) : messageArray[i].id = id
    THEN CHOOSE i \in 1..Len(messageArray) :
            /\ messageArray[i].id = id
            /\ \A j \in 1..(i - 1) : messageArray[j].id # id
    ELSE 0

StartIndexFullScan(messageArray, targetTime, ltt, lsid) == 1

\* The index the scan starts at (index.tsx:118-126).
StartIndex(messageArray, targetTime, ltt, lsid) ==
    IF MovingForward(targetTime, ltt) /\ lsid # Null
            /\ FindIndex(messageArray, lsid.lit) # 0
    THEN FindIndex(messageArray, lsid.lit)
    ELSE 1

\* messagesWithDiffs (index.tsx:129-152), from index i on.
RECURSIVE MessagesWithDiffs(_, _, _, _)
MessagesWithDiffs(messageArray, i, targetTime, ltt) ==
    IF i > Len(messageArray) THEN <<>>
    ELSE IF messageArray[i].timestamp = <<>>
    THEN MessagesWithDiffs(messageArray, i + 1, targetTime, ltt)
    ELSE <<[id |-> messageArray[i].id,
            diff |-> Diff(messageArray[i].timestamp[1], targetTime, ltt),
            index |-> i]>>
           \o MessagesWithDiffs(messageArray, i + 1, targetTime, ltt)

RECURSIVE ReduceLastWins(_, _, _)
ReduceLastWins(list, i, prev) ==
    IF i > Len(list) THEN prev
    ELSE ReduceLastWins(list, i + 1, IF list[i].diff <= prev.diff THEN list[i] ELSE prev)

RECURSIVE ReduceFarthest(_, _, _)
ReduceFarthest(list, i, prev) ==
    IF i > Len(list) THEN prev
    ELSE ReduceFarthest(list, i + 1, IF list[i].diff > prev.diff THEN list[i] ELSE prev)

\* list.reduce((prev, curr) => curr.diff < prev.diff ? curr : prev), the
\* accumulator being prev and the next element list[i].
RECURSIVE Reduce(_, _, _)
Reduce(list, i, prev) ==
    IF i > Len(list) THEN prev
    ELSE Reduce(list, i + 1, IF list[i].diff < prev.diff THEN list[i] ELSE prev)

NeighbourAllowsOnlyWorse(messageArray, k, targetTime, ltt, closestDiff) ==
    IF k < 1 \/ k > Len(messageArray) THEN TRUE
    ELSE IF messageArray[k].timestamp = <<>> THEN TRUE
    ELSE ~(Diff(messageArray[k].timestamp[1], targetTime, ltt) <= closestDiff)

\* The neighbour at index k does not beat the closest diff (index.tsx:170-202).
NeighbourAllows(messageArray, k, targetTime, ltt, closestDiff) ==
    IF k < 1 \/ k > Len(messageArray) THEN TRUE
    ELSE IF messageArray[k].timestamp = <<>> THEN TRUE
    ELSE ~(Diff(messageArray[k].timestamp[1], targetTime, ltt) < closestDiff)

\* findMessageByTimestamp(channelId, targetTimestamp), after line 113: the
\* messages of the channel, the target in ms, and the two module variables.
findMessageByTimestamp(messageArray, targetTime, ltt, lsid) ==
    LET startIndex == StartIndex(messageArray, targetTime, ltt, lsid)
        messagesWithDiffs == MessagesWithDiffs(messageArray, startIndex, targetTime, ltt)
    IN  IF Len(messagesWithDiffs) = 0 THEN Null
        ELSE LET closestMessage == Reduce(messagesWithDiffs, 2, messagesWithDiffs[1])
                 isAlreadyAtClosest == lsid # Null /\ lsid.lit = closestMessage.id
                 isClosest ==
                     /\ NeighbourAllows(messageArray, closestMessage.index - 1,
                                        targetTime, ltt, closestMessage.diff)
                     /\ NeighbourAllows(messageArray, closestMessage.index + 1,
                                        targetTime, ltt, closestMessage.diff)
             IN  [t |-> "object", id |-> closestMessage.id,
                  diff |-> closestMessage.diff,
                  isClosest |-> isAlreadyAtClosest /\ isClosest]

(***************************************************************************)
(* The resolver on its own: one call of findMessageByTimestamp on a feed   *)
(* in ascending chronological order, a target and a memory drawn from      *)
(* small sets.                                                             *)
(***************************************************************************)
MaxFeedLen == 3

Ids == <<"a", "b", "c", "d", "e", "f">>

\* Message times in ms: around the targets, and about one penalty later.
TimeValues == {0, 5, 10, 1000005, 1000012}

TargetTimes == {3, 5, 8}

\* new Date(ms).toISOString() for ms < 60000: "1970-01-01T00:00:ss.mmmZ"
ToISOString(ms) ==
    <<"1", "9", "7", "0", "-", "0", "1", "-", "0", "1", "T",
      "0", "0", ":", "0", "0", ":",
      Digits[((ms \div 10000) % 6) + 1], Digits[((ms \div 1000) % 10) + 1], ".",
      Digits[((ms \div 100) % 10) + 1], Digits[((ms \div 10) % 10) + 1],
      Digits[(ms % 10) + 1], "Z">>

TimestampOptions == {<<>>} \cup {<<t>> : t \in TimeValues}

Ascending(f) ==
    \A i, j \in DOMAIN f :
        (i < j /\ f[i] # <<>> /\ f[j] # <<>>) => f[i][1] <= f[j][1]

Feeds ==
    UNION { { [i \in 1..n |-> [id |-> Ids[i], timestamp |-> f[i]]] :
                f \in {g \in [1..n -> TimestampOptions] : Ascending(g)} } :
            n \in 0..MaxFeedLen }

InitResolver ==
    /\ RelayIdle
    /\ ValidatorIdle
    /\ DriverIdle
    /\ NoChannel
    /\ ServiceRunning
    /\ StreamsIdle
    /\ feed \in Feeds
    /\ targetTimestamp \in {JStr(ToISOString(t)) : t \in TargetTimes}
    /\ lastTargetTime \in {Null} \cup {JNum(t) : t \in {0, 8}}
    /\ lastScrolledMessageId \in
           {Null, JText("z")} \cup {JText(Ids[i]) : i \in 1..MaxFeedLen}
    /\ result = Pending

\* new Date(targetTimestamp).getTime() (index.tsx:113)
TargetTime == GetTime(DateParse(targetTimestamp.s))

\* findMessageByTimestamp(channelId, targetTimestamp) is called and returns.
Resolve ==
    /\ result = Pending
    /\ result' = findMessageByTimestamp(feed, TargetTime, lastTargetTime,
                                        lastScrolledMessageId)
    /\ UNCHANGED <<feed, targetTimestamp, lastScrolledMessageId, lastTargetTime,
                   relayVars, validatorVars, driverVars, serviceVars, streamVars>>

NextResolver == Resolve

SpecResolver == InitResolver /\ [][NextResolver]_vars

\* Forward mode, as the specification of the resolver defines it.
ForwardMode == lastTargetTime # Null /\ TargetTime > lastTargetTime.n

\* The distance of a time t in the mode of this call.
Distance(t) ==
    IF ForwardMode
    THEN IF t >= TargetTime THEN t - TargetTime ELSE (TargetTime - t) + 1000000
    ELSE IF t >= TargetTime THEN t - TargetTime ELSE TargetTime - t

\* The indices of the feed that carry a timestamp.
Timestamped == {i \in 1..Len(feed) : feed[i].timestamp # <<>>}

TimeOf(i) == feed[i].timestamp[1]

\* The indices the call scanned.
Scanned ==
    {i \in Timestamped :
        i >= StartIndex(feed, TargetTime, lastTargetTime, lastScrolledMessageId)}

\* The index of the message the call returned.
Selected == CHOOSE i \in 1..Len(feed) : feed[i].id = result.id

\* The feed of the specification's examples: a, b, c at 0, 5, 10.
ExampleFeed ==
    <<[id |-> "a", timestamp |-> <<0>>], [id |-> "b", timestamp |-> <<5>>],
      [id |-> "c", timestamp |-> <<10>>]>>

\* C9 as claimed: in forward mode every message before the target has a
\* strictly larger diff than every message at or after it, and a call whose
\* scan window holds a message at or after the target returns such a message.
C9_ForwardBiasAlways ==
    (result # Pending /\ ForwardMode) =>
        /\ \A i, j \in Timestamped :
               (TimeOf(i) < TargetTime /\ TimeOf(j) >= TargetTime) =>
                   Diff(TimeOf(i), TargetTime, lastTargetTime)
                       > Diff(TimeOf(j), TargetTime, lastTargetTime)
        /\ (\E j \in Scanned : TimeOf(j) >= TargetTime) =>
               (result # Null /\ TimeOf(Selected) >= TargetTime)

\* C9, amended: the same for the messages at or after the target that are no
\* more than 1,000,000 ms after it.
C9_ForwardBiasWithinPenalty ==
    (result # Pending /\ ForwardMode) =>
        /\ \A i, j \in Timestamped :
               (TimeOf(i) < TargetTime /\ TimeOf(j) >= TargetTime
                    /\ TimeOf(j) - TargetTime <= 1000000) =>
                   Diff(TimeOf(i), TargetTime, lastTargetTime)
                       > Diff(TimeOf(j), TargetTime, lastTargetTime)
        /\ (\E j \in Scanned :
                TimeOf(j) >= TargetTime /\ TimeOf(j) - TargetTime <= 1000000) =>
               (result # Null /\ TimeOf(Selected) >= TargetTime)

\* Messages at 0, 5, 10, memory {0, a}, target 8: c at 10 is returned with
\* diff 2 although b at 5 is only 3 away.
C9_Witness ==
    /\ result # Pending /\ result # Null
    /\ feed = ExampleFeed
    /\ lastTargetTime = JNum(0) /\ lastScrolledMessageId = JText("a")
    /\ TargetTime = 8
    /\ result.id = "c" /\ result.diff = 2

\* C10: the call is in forward mode exactly when lastTargetTime is present and
\* the target is later; it returns nothing when no scanned message has a
\* timestamp, and otherwise the scanned message of least distance in that
\* mode, the lowest index among equals, with that distance as diff.
C10_MinimumDistance ==
    result # Pending =>
        IF Scanned = {} THEN result = Null
        ELSE /\ result # Null
             /\ Selected \in Scanned
             /\ result.diff = Distance(TimeOf(Selected))
             /\ \A i \in Scanned :
                    /\ Distance(TimeOf(Selected)) <= Distance(TimeOf(i))
                    /\ Distance(TimeOf(i)) = Distance(TimeOf(Selected))
                           => Selected <= i

\* Messages at 0, 5, 10, memory {8, c}, target 3: absolute mode returns b
\* (diff 2), not a (diff 3).
C10_Witness ==
    /\ result # Pending /\ result # Null
    /\ feed = ExampleFeed
    /\ lastTargetTime = JNum(8) /\ lastScrolledMessageId = JText("c")
    /\ TargetTime = 3
    /\ result.id = "b" /\ result.diff = 2

\* The index of lastScrolledMessageId in the feed, 0 when it is absent or the
\* feed does not hold it.
LastMatchedIndex ==
    IF lastScrolledMessageId = Null THEN 0
    ELSE IF \E i \in 1..Len(feed) : feed[i].id = lastScrolledMessageId.lit
    THEN CHOOSE i \in 1..Len(feed) : feed[i].id = lastScrolledMessageId.lit
    ELSE 0

\* C11: in forward mode with lastScrolledMessageId found in the feed at index
\* k, the returned message has an index of at least k; in absolute mode, or
\* when lastScrolledMessageId is absent or not in the feed, every message with
\* a timestamp is considered: the call returns nothing only when there is
\* none, and no such message is closer than the one returned.
C11_SearchWindow ==
    result # Pending =>
        IF ForwardMode /\ LastMatchedIndex # 0
        THEN result # Null => Selected >= LastMatchedIndex
        ELSE /\ (result = Null) <=> (Timestamped = {})
             /\ result # Null =>
                    \A i \in Timestamped : result.diff <= Distance(TimeOf(i))

\* Messages at 0, 5, 10, memory {0, c}, target 3: only c is scanned and c is
\* returned with diff 7, although b is 2 away.
C11_Witness ==
    /\ result # Pending /\ result # Null
    /\ feed = ExampleFeed
    /\ lastTargetTime = JNum(0) /\ lastScrolledMessageId = JText("c")
    /\ TargetTime = 3
    /\ result.id = "c" /\ result.diff = 7

\* The neighbour of the returned message at index k, when the feed has one
\* there and it has a timestamp, is strictly closer than the returned message.
NeighbourCloser(k) ==
    /\ k \in Timestamped
    /\ Distance(TimeOf(k)) < Distance(TimeOf(Selected))

LocallyMinimal == ~NeighbourCloser(Selected - 1) /\ ~NeighbourCloser(Selected + 1)

\* C13: the isClosest flag of the result is true exactly when the returned id
\* equals lastScrolledMessageId and neither neighbour of the returned message
\* in the feed that has a timestamp is strictly closer in the same mode.
C13_SettledFlag ==
    (result # Pending /\ result # Null) =>
        (result.isClosest <=>
            /\ lastScrolledMessageId # Null
            /\ lastScrolledMessageId.lit = result.id
            /\ LocallyMinimal)

\* Messages at 0, 5, 10, memory {0, c}, target 3: c is returned and equals
\* lastScrolledMessageId, but its neighbour b is closer, so it is not settled.
C13_Witness ==
    /\ result # Pending /\ result # Null
    /\ feed = ExampleFeed
    /\ lastTargetTime = JNum(0) /\ lastScrolledMessageId = JText("c")
    /\ TargetTime = 3
    /\ result.id = "c" /\ ~result.isClosest /\ ~LocallyMinimal

(***************************************************************************)
(* The polling loop of the plugin (index.tsx:96-107, 211-245, 344-438):    *)
(* fetchTimestamp, the callback of scrollToTimestamp and                   *)
(* attemptScrollToTarget, as functions of the module variables.            *)
(***************************************************************************)
\* fetch() rejected: the relay cannot be reached.
NetworkError == [kind |-> "rejected", ok |-> FALSE, body |-> Null]

\* fetch() resolved with a response: response.ok and the text of its body.
Response(ok, body) == [kind |-> "response", ok |-> ok, body |-> body]

\* fetchTimestamp(): { gmt } or null (index.tsx:96-107).
fetchTimestamp(response) ==
    IF response.kind = "rejected" THEN Null
    ELSE IF ~response.ok THEN Null
    ELSE IF response.body = Malformed THEN Null
    ELSE IF Throws(response.body) THEN Null
    ELSE IF Truthy(Get(response.body, "gmt"))
    THEN JObj([gmt |-> Get(response.body, "gmt")])
    ELSE Null

\* The four variables the callback of scrollToTimestamp may assign.
Memory(lft, tts, ltt, lsid) ==
    [lastFetchedTimestamp |-> lft, targetTimestamp |-> tts,
     lastTargetTime |-> ltt, lastScrolledMessageId |-> lsid]

UpdateTargetKeepsLater(gmt, lft, tts, ltt, lsid) ==
    IF lft # gmt /\ (ltt = Null \/ GetTime(DateParse(gmt.s)) > ltt.n)
    THEN LET newTargetTime == GetTime(DateParse(gmt.s))
         IN  Memory(gmt, gmt, JNum(newTargetTime),
                    IF ltt = Null \/ newTargetTime > ltt.n + 1000
                    THEN Null ELSE lsid)
    ELSE Memory(lft, tts, ltt, lsid)

UpdateTargetResetAtMargin(gmt, lft, tts, ltt, lsid) ==
    IF lft # gmt
    THEN LET newTargetTime == GetTime(DateParse(gmt.s))
         IN  Memory(gmt, gmt, JNum(newTargetTime),
                    IF ltt = Null \/ newTargetTime >= ltt.n + 1000
                    THEN Null ELSE lsid)
    ELSE Memory(lft, tts, ltt, lsid)

UpdateTargetAlwaysResets(gmt, lft, tts, ltt, lsid) ==
    IF lft # gmt
    THEN Memory(gmt, gmt, JNum(GetTime(DateParse(gmt.s))), Null)
    ELSE Memory(lft, tts, ltt, lsid)

\* if (lastFetchedTimestamp !== data.gmt) { ... } (index.tsx:226-238)
UpdateTarget(gmt, lft, tts, ltt, lsid) ==
    IF lft # gmt
    THEN LET newTargetTime == GetTime(DateParse(gmt.s))
         IN  Memory(gmt, gmt, JNum(newTargetTime),
                    IF ltt = Null \/ newTargetTime > ltt.n + 1000
                    THEN Null ELSE lsid)
    ELSE Memory(lft, tts, ltt, lsid)

\* What a call of attemptScrollToTarget did: whether it called
\* findMessageByTimestamp and with what result, the message it scrolled or
\* jumped to (null when none), and lastScrolledMessageId afterwards.
Attempted(called, res, moved, lsid) ==
    [called |-> called, result |-> res, moved |-> moved,
     lastScrolledMessageId |-> lsid]

attemptScrollToTargetAlwaysScrolls(messageArray, tts, ltt, lsid, menuOpen) ==
    IF ~Truthy(tts) THEN Attempted(FALSE, Null, Null, lsid)
    ELSE IF menuOpen THEN Attempted(FALSE, Null, Null, lsid)
    ELSE LET res == findMessageByTimestamp(messageArray,
                        GetTime(DateParse(tts.s)), ltt, lsid)
         IN  IF res = Null THEN Attempted(TRUE, Null, Null, lsid)
             ELSE Attempted(TRUE, res, JText(res.id), JText(res.id))

attemptScrollToTargetIgnoresMenu(messageArray, tts, ltt, lsid, menuOpen) ==
    IF ~Truthy(tts) THEN Attempted(FALSE, Null, Null, lsid)
    ELSE LET res == findMessageByTimestamp(messageArray,
                        GetTime(DateParse(tts.s)), ltt, lsid)
         IN  IF res = Null THEN Attempted(TRUE, Null, Null, lsid)
             ELSE IF res.isClosest THEN Attempted(TRUE, res, Null, lsid)
             ELSE IF lsid # JText(res.id)
             THEN Attempted(TRUE, res, JText(res.id), JText(res.id))
             ELSE Attempted(TRUE, res, Null, lsid)

attemptScrollToTargetForgetsId(messageArray, tts, ltt, lsid, menuOpen) ==
    IF ~Truthy(tts) THEN Attempted(FALSE, Null, Null, lsid)
    ELSE IF menuOpen THEN Attempted(FALSE, Null, Null, lsid)
    ELSE LET res == findMessageByTimestamp(messageArray,
                        GetTime(DateParse(tts.s)), ltt, lsid)
         IN  IF res = Null THEN Attempted(TRUE, Null, Null, lsid)
             ELSE IF res.isClosest THEN Attempted(TRUE, res, Null, lsid)
             ELSE IF lsid # JText(res.id)
             THEN Attempted(TRUE, res, JText(res.id), lsid)
             ELSE Attempted(TRUE, res, Null, lsid)

attemptScrollToTargetClearsOnMiss(messageArray, tts, ltt, lsid, menuOpen) ==
    IF ~Truthy(tts) THEN Attempted(FALSE, Null, Null, lsid)
    ELSE IF menuOpen THEN Attempted(FALSE, Null, Null, lsid)
    ELSE LET res == findMessageByTimestamp(messageArray,
                        GetTime(DateParse(tts.s)), ltt, lsid)
         IN  IF res = Null THEN Attempted(TRUE, Null, Null, Null)
             ELSE IF res.isClosest THEN Attempted(TRUE, res, Null, lsid)
             ELSE IF lsid # JText(res.id)
             THEN Attempted(TRUE, res, JText(res.id), JText(res.id))
             ELSE Attempted(TRUE, res, Null, lsid)

\* attemptScrollToTarget(channelId) (index.tsx:344-401); the scroll of a
\* rendered message (367-372) and jumpToMessage (375-398) are both the move
\* to the message result.id.
attemptScrollToTarget(messageArray, tts, ltt, lsid, menuOpen) ==
    IF ~Truthy(tts) THEN Attempted(FALSE, Null, Null, lsid)
    ELSE IF menuOpen THEN Attempted(FALSE, Null, Null, lsid)
    ELSE LET res == findMessageByTimestamp(messageArray,
                        GetTime(DateParse(tts.s)), ltt, lsid)
         IN  IF res = Null THEN Attempted(TRUE, Null, Null, lsid)
             ELSE IF res.isClosest THEN Attempted(TRUE, res, Null, lsid)
             ELSE IF lsid # JText(res.id)
             THEN Attempted(TRUE, res, JText(res.id), JText(res.id))
             ELSE Attempted(TRUE, res, Null, lsid)

OnFetchedSkipsUnchanged(data, messageArray, lft, tts, ltt, lsid, menuOpen) ==
    LET failed == ~Truthy(data) \/ ~Truthy(Get(data, "gmt"))
        memory == IF failed THEN Memory(lft, tts, ltt, lsid)
                  ELSE UpdateTarget(Get(data, "gmt"), lft, tts, ltt, lsid)
    IN  [memory |-> memory,
         attempt |-> IF ~failed /\ lft = Get(data, "gmt")
                     THEN Attempted(FALSE, Null, Null, lsid)
                     ELSE attemptScrollToTarget(messageArray,
                              memory.targetTimestamp, memory.lastTargetTime,
                              memory.lastScrolledMessageId, menuOpen)]

\* The callback scrollToTimestamp gives to fetchTimestamp().then
\* (index.tsx:216-244): the memory it leaves before it calls
\* attemptScrollToTarget, and what that call does.
OnFetched(data, messageArray, lft, tts, ltt, lsid, menuOpen) ==
    LET failed == ~Truthy(data) \/ ~Truthy(Get(data, "gmt"))
        memory == IF failed THEN Memory(lft, tts, ltt, lsid)
                  ELSE UpdateTarget(Get(data, "gmt"), lft, tts, ltt, lsid)
    IN  [memory |-> memory,
         attempt |-> attemptScrollToTarget(messageArray,
                         memory.targetTimestamp, memory.lastTargetTime,
                         memory.lastScrolledMessageId, menuOpen)]

\* The assignments of a call of attemptScrollToTarget, and its record: kind
\* and gmt tell the step and the gmt it fetched, changed whether line 226
\* found it new, from is lastTargetTime before the step and lsid is
\* lastScrolledMessageId when attemptScrollToTarget was entered.
ApplyAttempt(kind, gmt, changed, lsid, a) ==
    /\ lastScrolledMessageId' = a.lastScrolledMessageId
    /\ tick' = [kind |-> kind.kind, data |-> gmt, changed |-> changed,
                from |-> lastTargetTime, called |-> a.called, lsid |-> lsid,
                result |-> a.result, moved |-> a.moved, ticks |-> 0,
                late |-> kind.late]
    /\ lastMove' = IF a.moved # Null THEN a.moved ELSE lastMove

(***************************************************************************)
(* attemptScrollToTarget on its own: calls in a row on one feed and one    *)
(* target, each call starting from the memory the one before left.         *)
(***************************************************************************)
MaxAttempts == 3

InitAttempt ==
    /\ RelayIdle
    /\ ValidatorIdle
    /\ feed \in Feeds
    /\ targetTimestamp \in {JStr(ToISOString(t)) : t \in TargetTimes}
    /\ lastTargetTime \in {Null} \cup {JNum(t) : t \in {0, 8}}
    /\ lastScrolledMessageId \in
           {Null, JText("z")} \cup {JText(Ids[i]) : i \in 1..MaxFeedLen}
    /\ result = Pending
    /\ checkInterval = JNum(1)
    /\ lastFetchedTimestamp = targetTimestamp
    /\ isContextMenuOpen \in BOOLEAN
    /\ fetching = <<>>
    /\ tick = NoTick
    /\ lastMove = lastScrolledMessageId
    /\ attempts = 0
    /\ enabled = TRUE
    /\ timers = {1}
    /\ currentChannelId = JStr(<<"c", "1">>)
    /\ selectedChannel = JStr(<<"c", "1">>)
    /\ ServiceRunning
    /\ StreamsIdle

\* attemptScrollToTarget(channelId) is called and returns.
Attempt ==
    /\ attempts < MaxAttempts
    /\ attempts' = attempts + 1
    /\ ApplyAttempt([kind |-> "attempt", late |-> FALSE], Null, FALSE, lastScrolledMessageId,
                    attemptScrollToTarget(feed, targetTimestamp, lastTargetTime,
                                          lastScrolledMessageId, isContextMenuOpen))
    /\ UNCHANGED <<feed, targetTimestamp, lastTargetTime, result, checkInterval,
                   lastFetchedTimestamp, isContextMenuOpen, fetching, syncVars,
                   relayVars, validatorVars, serviceVars, streamVars>>

NextAttempt == Attempt

SpecAttempt == InitAttempt /\ [][NextAttempt]_vars

\* The distance of a time t from the target in the mode of a call made with
\* the memory ltt.
DistanceIn(t, ltt) ==
    IF ltt # Null /\ TargetTime > ltt.n
    THEN IF t >= TargetTime THEN t - TargetTime ELSE (TargetTime - t) + 1000000
    ELSE IF t >= TargetTime THEN t - TargetTime ELSE TargetTime - t

\* The indices a call scans when it is entered with the memory ltt, lsid.
ScannedFrom(ltt, lsid) ==
    LET forward == ltt # Null /\ TargetTime > ltt.n
        found == IF lsid = Null THEN {}
                 ELSE {i \in 1..Len(feed) : feed[i].id = lsid.lit}
    IN  {i \in Timestamped :
            (forward /\ found # {}) => \A k \in found : i >= k}

\* C12: a call of attemptScrollToTarget that reaches findMessageByTimestamp
\* gets no result exactly when no scanned message has a timestamp, a message
\* without a timestamp is never the result, and on no result it moves to no
\* message and leaves targetTimestamp, lastTargetTime and
\* lastScrolledMessageId as they were.
C12_NoCandidate ==
    [][(tick'.kind = "attempt" /\ tick'.called) =>
          /\ (tick'.result = Null)
                 <=> (ScannedFrom(lastTargetTime, lastScrolledMessageId) = {})
          /\ tick'.result # Null =>
                 \E i \in Timestamped : feed[i].id = tick'.result.id
          /\ tick'.result = Null =>
                 /\ tick'.moved = Null
                 /\ lastMove' = lastMove
                 /\ targetTimestamp' = targetTimestamp
                 /\ lastTargetTime' = lastTargetTime
                 /\ lastScrolledMessageId' = lastScrolledMessageId]_vars

\* A feed of three messages of which only the first has a timestamp, entered
\* in forward mode with the second as lastScrolledMessageId: the scan from the
\* second on finds nothing, twice in a row.
C12_Witness ==
    /\ attempts = 2
    /\ tick.called /\ tick.result = Null /\ tick.moved = Null
    /\ Len(feed) = 3 /\ Timestamped = {1}
    /\ lastScrolledMessageId = JText("b")
    /\ lastTargetTime = JNum(0)

\* The message a call returned has no neighbour in the feed that is closer to
\* the target in the mode of the memory ltt.
LocallyMinimalIn(res, ltt) ==
    \A i \in 1..Len(feed) :
        feed[i].id = res.id =>
            \A k \in {i - 1, i + 1} \cap Timestamped :
                ~(DistanceIn(TimeOf(k), ltt) < DistanceIn(TimeOf(i), ltt))

\* C14: of two calls in a row on the same target and feed, the second
\* starting from the memory the first left, the second moves to no message,
\* and returns isClosest = TRUE whenever the first returned a message that
\* has no closer neighbour.
C14_SecondCallSettled ==
    [][(tick.kind = "attempt" /\ tick.called
            /\ tick'.kind = "attempt" /\ tick'.called) =>
          /\ tick'.moved = Null
          /\ (tick.result # Null /\ LocallyMinimalIn(tick.result, lastTargetTime))
                 => (tick'.result # Null /\ tick'.result.isClosest)]_vars

\* Messages at 0, 5, 10, memory {0, a}, target 8: the first call moves to c,
\* the second returns c again, settled, and moves to nothing.
C14_Witness ==
    /\ attempts = 2
    /\ feed = ExampleFeed
    /\ lastTargetTime = JNum(0) /\ TargetTime = 8
    /\ lastMove = JText("c")
    /\ tick.called /\ tick.result # Null
    /\ tick.result.id = "c" /\ tick.result.isClosest /\ tick.moved = Null

(***************************************************************************)
(* The polling loop: the timer, the fetches in progress and the callback   *)
(* of each, the context menu events and the messages of the channel.       *)
(***************************************************************************)
MaxFetches == 2

\* The gmt values the relay answers with, in ms: one second apart, and one
\* millisecond more.
DriverTimes == {1000, 2000, 2001}

Gmts == {JStr(ToISOString(t)) : t \in DriverTimes}

\* What a fetch of /ping settles with: no connection, the 404 of a relay
\* without data, a body that is not JSON, a record without gmt, a record.
FetchResponses ==
    { NetworkError,
      Response(FALSE, ErrorBody("No timestamp data available")),
      Response(TRUE, Malformed),
      Response(TRUE, JObj([currentTime |-> JNum(12)])) }
      \cup {Response(TRUE, JObj([gmt |-> g, currentTime |-> JNum(12)])) : g \in Gmts}

\* SelectedChannelStore.getChannelId(): no channel, or one of two.
ChannelIds == {Null, JStr(<<"c", "1">>), JStr(<<"c", "2">>)}

FeedNoTimestamp == <<[id |-> "a", timestamp |-> <<>>]>>

FeedEarly ==
    <<[id |-> "a", timestamp |-> <<990>>], [id |-> "b", timestamp |-> <<1990>>]>>

FeedLate ==
    <<[id |-> "a", timestamp |-> <<990>>], [id |-> "b", timestamp |-> <<1990>>],
      [id |-> "c", timestamp |-> <<2001>>]>>

DriverFeeds == {<<>>, FeedNoTimestamp, FeedEarly, FeedLate}

\* The plugin has started with the setting off (index.tsx:452-490).
InitDriver ==
    /\ RelayIdle
    /\ ValidatorIdle
    /\ DriverIdle
    /\ ServiceRunning
    /\ StreamsIdle
    /\ selectedChannel \in {Null, JStr(<<"c", "1">>)}
    /\ currentChannelId = selectedChannel
    /\ feed \in DriverFeeds
    /\ targetTimestamp = Null
    /\ lastScrolledMessageId = Null
    /\ lastTargetTime = Null
    /\ result = Pending

\* scrollToTimestamp() up to the call of fetchTimestamp (index.tsx:211-216).
ScrollToTimestamp(channelId) ==
    fetching' = IF Truthy(channelId) THEN Append(fetching, [late |-> FALSE])
                ELSE fetching

\* The id setInterval returns: one no timer has.
NewTimer(ts) == CHOOSE id \in 1..(Cardinality(ts) + 1) : id \notin ts

startPeriodicCheckUnguarded(ci, ts) ==
    [checkInterval |-> JNum(NewTimer(ts)), timers |-> ts \cup {NewTimer(ts)},
     ticks |-> 1]

\* startPeriodicCheck (index.tsx:403-408): the handle, the timers, and the
\* number of calls of scrollToTimestamp it makes.
startPeriodicCheck(ci, ts) ==
    IF Truthy(ci) THEN [checkInterval |-> ci, timers |-> ts, ticks |-> 0]
    ELSE [checkInterval |-> JNum(NewTimer(ts)), timers |-> ts \cup {NewTimer(ts)},
          ticks |-> 1]

\* stopPeriodicCheck (index.tsx:410-427).  A fetch in progress is not
\* cancelled.
stopPeriodicCheck ==
    /\ timers' = IF Truthy(checkInterval) THEN timers \ {checkInterval.n}
                 ELSE timers
    /\ checkInterval' = Null
    /\ targetTimestamp' = Null
    /\ lastFetchedTimestamp' = Null
    /\ lastScrolledMessageId' = Null
    /\ lastTargetTime' = Null

\* The setting is turned on: updateEnabledState(true) (index.tsx:429-433).
Enable ==
    /\ Len(fetching) < MaxFetches
    /\ enabled' = TRUE
    /\ LET started == startPeriodicCheck(checkInterval, timers)
       IN  /\ checkInterval' = started.checkInterval
           /\ timers' = started.timers
           /\ IF started.ticks > 0 THEN ScrollToTimestamp(selectedChannel)
              ELSE UNCHANGED fetching
           /\ tick' = [NoTick EXCEPT !.kind = "enable", !.ticks = started.ticks]
    /\ UNCHANGED <<feed, targetTimestamp, lastScrolledMessageId, lastTargetTime,
                   result, lastFetchedTimestamp, isContextMenuOpen, lastMove,
                   attempts, currentChannelId, selectedChannel,
                   relayVars, validatorVars, serviceVars, streamVars>>

\* The setting is turned off: updateEnabledState(false) (index.tsx:434-437).
Disable ==
    /\ enabled' = FALSE
    /\ stopPeriodicCheck
    /\ tick' = [NoTick EXCEPT !.kind = "disable"]
    /\ UNCHANGED <<feed, result, isContextMenuOpen, fetching, lastMove, attempts,
                   currentChannelId, selectedChannel,
                   relayVars, validatorVars, serviceVars, streamVars>>

\* A timer of setInterval fires: scrollToTimestamp() (index.tsx:406).
Tick(id) ==
    /\ id \in timers
    /\ Len(fetching) < MaxFetches
    /\ ScrollToTimestamp(selectedChannel)
    /\ tick' = [NoTick EXCEPT !.kind = "timer", !.ticks = 1]
    /\ UNCHANGED <<feed, targetTimestamp, lastScrolledMessageId, lastTargetTime,
                   result, checkInterval, lastFetchedTimestamp, isContextMenuOpen,
                   lastMove, attempts, syncVars,
                   relayVars, validatorVars, serviceVars, streamVars>>

\* The fetches still in flight after the k-th settled: those started before
\* it are now late.
Settle(reads, k) ==
    [j \in 1..(Len(reads) - 1) |->
        IF j < k THEN [late |-> TRUE] ELSE reads[j + 1]]

\* A fetch settles, whichever was started first, and the callback of
\* scrollToTimestamp runs (index.tsx:96-107, 216-244).
FetchDone(k, response) ==
    /\ k \in DOMAIN fetching
    /\ fetching' = Settle(fetching, k)
    /\ LET data == fetchTimestamp(response)
           done == OnFetched(data, feed, lastFetchedTimestamp, targetTimestamp,
                             lastTargetTime, lastScrolledMessageId,
                             isContextMenuOpen)
       IN  /\ lastFetchedTimestamp' = done.memory.lastFetchedTimestamp
           /\ targetTimestamp' = done.memory.targetTimestamp
           /\ lastTargetTime' = done.memory.lastTargetTime
           /\ ApplyAttempt([kind |-> "fetched", late |-> fetching[k].late],
                           Get(data, "gmt"),
                           Truthy(Get(data, "gmt"))
                               /\ lastFetchedTimestamp # Get(data, "gmt"),
                           done.memory.lastScrolledMessageId, done.attempt)
    /\ UNCHANGED <<feed, result, checkInterval, isContextMenuOpen, attempts,
                   enabled, timers, currentChannelId, selectedChannel,
                   relayVars, validatorVars, serviceVars, streamVars>>

\* CONTEXT_MENU_OPEN and CONTEXT_MENU_CLOSE (index.tsx:468-474).
ContextMenu(open) ==
    /\ isContextMenuOpen' = open
    /\ tick' = NoTick
    /\ UNCHANGED <<feed, targetTimestamp, lastScrolledMessageId, lastTargetTime,
                   result, checkInterval, lastFetchedTimestamp, fetching,
                   lastMove, attempts, syncVars,
                   relayVars, validatorVars, serviceVars, streamVars>>

\* The messages of the channel change.
NewMessages(messageArray) ==
    /\ messageArray # feed
    /\ feed' = messageArray
    /\ tick' = NoTick
    /\ UNCHANGED <<targetTimestamp, lastScrolledMessageId, lastTargetTime,
                   result, checkInterval, lastFetchedTimestamp,
                   isContextMenuOpen, fetching, lastMove, attempts, syncVars,
                   relayVars, validatorVars, serviceVars, streamVars>>

channelChangeListenerKeepsEnabled(newChannelId, channelId, en) ==
    IF Truthy(newChannelId) /\ newChannelId # channelId
    THEN [currentChannelId |-> newChannelId, enabled |-> en]
    ELSE [currentChannelId |-> channelId, enabled |-> en]

\* channelChangeListener (index.tsx:480-489): currentChannelId and the
\* setting afterwards.
channelChangeListener(newChannelId, channelId, en) ==
    IF Truthy(newChannelId) /\ newChannelId # channelId
    THEN [currentChannelId |-> newChannelId,
          enabled |-> IF en THEN FALSE ELSE en]
    ELSE [currentChannelId |-> channelId, enabled |-> en]

\* CHANNEL_SELECT: another channel, or none, is selected; the listener runs,
\* and with it the listener of the setting when the setting changes
\* (index.tsx:457-459).  The messages of the channel follow (NewMessages).
ChannelSelect(channelId) ==
    /\ channelId # selectedChannel
    /\ selectedChannel' = channelId
    /\ LET after == channelChangeListener(channelId, currentChannelId, enabled)
       IN  /\ currentChannelId' = after.currentChannelId
           /\ enabled' = after.enabled
           /\ IF after.enabled # enabled
              THEN stopPeriodicCheck
              ELSE UNCHANGED <<timers, checkInterval, targetTimestamp,
                               lastFetchedTimestamp, lastScrolledMessageId,
                               lastTargetTime>>
           /\ tick' = [NoTick EXCEPT !.kind = IF after.enabled # enabled
                                              THEN "switched off" ELSE "channel"]
    /\ UNCHANGED <<feed, result, isContextMenuOpen, fetching, lastMove, attempts,
                   relayVars, validatorVars, serviceVars, streamVars>>

NextDriver ==
    \/ Enable
    \/ Disable
    \/ \E id \in timers : Tick(id)
    \/ \E k \in 1..MaxFetches, response \in FetchResponses : FetchDone(k, response)
    \/ \E open \in BOOLEAN : ContextMenu(open)
    \/ \E messageArray \in DriverFeeds : NewMessages(messageArray)

SpecDriver == InitDriver /\ [][NextDriver]_vars

\* The step is the callback of a fetch that returned the gmt that
\* lastFetchedTimestamp already holds.
FetchedUnchanged ==
    /\ tick'.kind = "fetched"
    /\ Truthy(tick'.data)
    /\ tick'.data = lastFetchedTimestamp

\* The step is the callback of a fetch that failed: no connection, a status
\* that is not OK, a body that is not JSON, or a body without gmt.
FetchedNothing == tick'.kind = "fetched" /\ ~Truthy(tick'.data)

\* The step is the callback of a fetch that returned a new gmt.
FetchedChanged == tick'.kind = "fetched" /\ tick'.changed

\* What attemptScrollToTarget does with the result of findMessageByTimestamp:
\* it moves exactly to a result that is not settled and whose id is not lsid.
MovesTo(res, lsid) ==
    IF res # Null /\ ~res.isClosest /\ lsid # JText(res.id)
    THEN JText(res.id) ELSE Null

\* C15 as claimed: a callback whose fetch returned the gmt already seen does
\* not call findMessageByTimestamp, moves to no message and leaves
\* lastTargetTime and lastScrolledMessageId unchanged.
C15_UnchangedSkipsResolution ==
    [][FetchedUnchanged =>
          /\ ~tick'.called
          /\ tick'.moved = Null
          /\ lastTargetTime' = lastTargetTime
          /\ lastScrolledMessageId' = lastScrolledMessageId]_vars

\* C15, amended: such a callback leaves targetTimestamp, lastFetchedTimestamp
\* and lastTargetTime unchanged and does not reset lastScrolledMessageId, but
\* it still calls findMessageByTimestamp on the held target unless the
\* context menu is open, and moves, setting lastScrolledMessageId, when the
\* result is not settled and its id differs from lastScrolledMessageId.
C15_UnchangedStillResolves ==
    [][FetchedUnchanged =>
          /\ targetTimestamp' = targetTimestamp
          /\ lastFetchedTimestamp' = lastFetchedTimestamp
          /\ lastTargetTime' = lastTargetTime
          /\ tick'.lsid = lastScrolledMessageId
          /\ tick'.called <=> ~isContextMenuOpen
          /\ tick'.called =>
                 /\ tick'.result =
                        findMessageByTimestamp(feed, TargetTime, lastTargetTime,
                                               lastScrolledMessageId)
                 /\ tick'.moved = MovesTo(tick'.result, lastScrolledMessageId)
          /\ ~tick'.called => tick'.moved = Null
          /\ lastScrolledMessageId' =
                 IF tick'.moved # Null THEN tick'.moved
                 ELSE lastScrolledMessageId]_vars

\* The gmt of 1 s was fetched while the channel had no message; the messages
\* arrived, and the next fetch, of the same gmt, moved to a.
C15_Witness ==
    /\ tick.kind = "fetched" /\ Truthy(tick.data) /\ ~tick.changed
    /\ tick.data = JStr(ToISOString(1000))
    /\ tick.called /\ tick.lsid = Null
    /\ tick.moved = JText("a") /\ lastScrolledMessageId = JText("a")

\* C16 as claimed: a callback whose fetch failed leaves targetTimestamp,
\* lastFetchedTimestamp and lastTargetTime unchanged; with a target held it
\* calls findMessageByTimestamp on that target, with none it does nothing.
C16_FailedReadRetries ==
    [][FetchedNothing =>
          /\ targetTimestamp' = targetTimestamp
          /\ lastFetchedTimestamp' = lastFetchedTimestamp
          /\ lastTargetTime' = lastTargetTime
          /\ IF Truthy(targetTimestamp)
             THEN /\ tick'.called
                  /\ tick'.result =
                         findMessageByTimestamp(feed, TargetTime, lastTargetTime,
                                                lastScrolledMessageId)
             ELSE /\ ~tick'.called
                  /\ tick'.moved = Null
                  /\ lastScrolledMessageId' = lastScrolledMessageId]_vars

\* C16, amended: the same, the call being made when a target is held and the
\* context menu is not open; with the context menu open, as with no target,
\* the callback does nothing.
C16_FailedReadRetriesUnlessMenu ==
    [][FetchedNothing =>
          /\ targetTimestamp' = targetTimestamp
          /\ lastFetchedTimestamp' = lastFetchedTimestamp
          /\ lastTargetTime' = lastTargetTime
          /\ IF Truthy(targetTimestamp) /\ ~isContextMenuOpen
             THEN /\ tick'.called
                  /\ tick'.result =
                         findMessageByTimestamp(feed, TargetTime, lastTargetTime,
                                                lastScrolledMessageId)
             ELSE /\ ~tick'.called
                  /\ tick'.moved = Null
                  /\ lastScrolledMessageId' = lastScrolledMessageId]_vars

\* With the target of 2 s held and nothing scrolled yet, a fetch failed and
\* the callback moved to the closest message, b.
C16_Witness ==
    /\ tick.kind = "fetched" /\ ~Truthy(tick.data)
    /\ targetTimestamp = JStr(ToISOString(2000))
    /\ feed = FeedEarly
    /\ tick.called /\ tick.moved = JText("b")

\* C17: a callback whose fetch returned a new gmt sets targetTimestamp,
\* lastFetchedTimestamp and lastTargetTime to it; it resets
\* lastScrolledMessageId when the new target is more than 1000 ms after
\* lastTargetTime, and leaves it as it was when the new target is at most
\* 1000 ms later, or earlier (with no previous target there is none to reset).
C17_Hysteresis ==
    [][FetchedChanged =>
          /\ targetTimestamp' = tick'.data
          /\ lastFetchedTimestamp' = tick'.data
          /\ lastTargetTime' = JNum(GetTime(DateParse(tick'.data.s)))
          /\ lastTargetTime = Null => lastScrolledMessageId = Null
          /\ tick'.lsid =
                 IF lastTargetTime # Null
                        /\ lastTargetTime'.n - lastTargetTime.n > 1000
                 THEN Null
                 ELSE lastScrolledMessageId]_vars

\* The target went from 1 s to 2 s, exactly 1000 ms: lastScrolledMessageId,
\* a, was kept for the call of findMessageByTimestamp.
C17_Witness ==
    /\ tick.kind = "fetched" /\ tick.changed
    /\ tick.from = JNum(1000) /\ lastTargetTime = JNum(2000)
    /\ tick.lsid = JText("a")

\* C18: a callback that calls findMessageByTimestamp moves to a message
\* exactly when the result is not settled and its id differs from
\* lastScrolledMessageId, which then becomes that id; otherwise nothing is
\* moved to and lastScrolledMessageId stays.  Hence lastScrolledMessageId is
\* always absent or the id of the latest move.
C18_MoveAndRemember ==
    /\ tick.kind = "fetched" =>
           /\ tick.moved = (IF tick.called THEN MovesTo(tick.result, tick.lsid)
                            ELSE Null)
           /\ lastScrolledMessageId =
                  (IF tick.moved # Null THEN tick.moved ELSE tick.lsid)
    /\ lastScrolledMessageId = Null \/ lastScrolledMessageId = lastMove

\* A callback entered with lastScrolledMessageId = a moved to b.
C18_Witness ==
    /\ tick.kind = "fetched" /\ tick.called
    /\ tick.lsid = JText("a")
    /\ tick.moved = JText("b")
    /\ lastScrolledMessageId = JText("b") /\ lastMove = JText("b")

\* C19: while the timer is not armed, targetTimestamp, lastFetchedTimestamp,
\* lastTargetTime and lastScrolledMessageId are all absent.
C19_ClearedWhileDisabled ==
    ~Truthy(checkInterval) =>
        /\ targetTimestamp = Null
        /\ lastFetchedTimestamp = Null
        /\ lastTargetTime = Null
        /\ lastScrolledMessageId = Null

\* C20: while the timer is not armed, no step moves to a message.
C20_NoMoveWhileDisabled ==
    [][(~Truthy(checkInterval) /\ ~Truthy(checkInterval'))
           => tick'.moved = Null]_vars

\* C26: turning the setting on while it is off arms one timer and calls
\* scrollToTimestamp once; turning it on while the timer is armed changes
\* nothing; there is never more than one timer, and none after the setting
\* is turned off.
C26_Step ==
    /\ (tick'.kind = "enable" /\ ~enabled) =>
           /\ Cardinality(timers') = 1
           /\ checkInterval' = JNum(CHOOSE id \in timers' : TRUE)
           /\ tick'.ticks = 1
           /\ Len(fetching') = Len(fetching) + (IF Truthy(selectedChannel) THEN 1 ELSE 0)
    /\ (tick'.kind = "enable" /\ enabled) =>
           /\ timers' = timers
           /\ checkInterval' = checkInterval
           /\ tick'.ticks = 0
           /\ fetching' = fetching
           /\ resolverVars' = resolverVars
           /\ lastFetchedTimestamp' = lastFetchedTimestamp
    /\ Cardinality(timers') <= 1
    /\ tick'.kind = "disable" => (timers' = {} /\ checkInterval' = Null)

C26_OneTimer == [][C26_Step]_vars

\* The setting was turned on a second time, with the fetch of an earlier
\* tick still in progress.
C26_Witness ==
    /\ tick.kind = "enable" /\ tick.ticks = 1
    /\ timers = {1} /\ checkInterval = JNum(1)
    /\ Len(fetching) = 2

\* C29: whichever of the fetches in progress settles, when it returns a gmt
\* that gmt is the target afterwards.
C29_LatestCompletedWins ==
    [][(tick'.kind = "fetched" /\ Truthy(tick'.data))
           => targetTimestamp' = tick'.data]_vars

\* Two fetches were in progress; the second settled first with 2 s, the
\* first settled after it with 1 s, and the target went back to 1 s.
C29_Witness ==
    /\ enabled
    /\ tick.kind = "fetched" /\ tick.late
    /\ tick.from = JNum(2000)
    /\ tick.data = JStr(ToISOString(1000))
    /\ targetTimestamp = JStr(ToISOString(1000))

\* C30: a callback whose fetch returned a gmt later than the previous target
\* calls findMessageByTimestamp in forward mode, the mode being decided by
\* the new target against the previous one.
C30_ForwardOnLaterTarget ==
    [][(FetchedChanged /\ tick'.called /\ lastTargetTime # Null
            /\ lastTargetTime'.n > lastTargetTime.n)
           => tick'.result =
                  findMessageByTimestamp(feed, lastTargetTime'.n, lastTargetTime,
                                         tick'.lsid)]_vars

(***************************************************************************)
(* The polling loop while the user goes from channel to channel.           *)
(***************************************************************************)
ChannelResponses ==
    {NetworkError} \cup
    {Response(TRUE, JObj([gmt |-> JStr(ToISOString(t)), currentTime |-> JNum(12)])) :
         t \in {1000, 2000}}

InitChannels ==
    /\ RelayIdle
    /\ ValidatorIdle
    /\ DriverIdle
    /\ ServiceRunning
    /\ StreamsIdle
    /\ selectedChannel \in ChannelIds
    /\ currentChannelId = selectedChannel
    /\ feed = FeedEarly
    /\ targetTimestamp = Null
    /\ lastScrolledMessageId = Null
    /\ lastTargetTime = Null
    /\ result = Pending

NextChannels ==
    \/ Enable
    \/ Disable
    \/ \E id \in timers : Tick(id)
    \/ \E k \in 1..MaxFetches, response \in ChannelResponses : FetchDone(k, response)
    \/ \E channelId \in ChannelIds : ChannelSelect(channelId)

SpecChannels == InitChannels /\ [][NextChannels]_vars

\* The timer is stopped and the four variables of the loop are null.
StoppedAndCleared ==
    /\ timers = {}
    /\ checkInterval = Null
    /\ targetTimestamp = Null
    /\ lastFetchedTimestamp = Null
    /\ lastTargetTime = Null
    /\ lastScrolledMessageId = Null

\* C25 as claimed: whenever the selected channel changes while the setting
\* is on, the setting goes off, the timer is stopped and the memory cleared;
\* the setting comes on again only by being turned on, and scrollToTimestamp
\* is not called while it is off.
C25_AnyChangeDisables ==
    [][/\ (enabled /\ selectedChannel' # selectedChannel)
              => (~enabled' /\ StoppedAndCleared')
       /\ (~enabled /\ enabled') => tick'.kind = "enable"
       /\ ~enabled' => (timers' = {} /\ tick'.ticks = 0)]_vars

\* C25, amended: the setting goes off, with the timer stopped and the memory
\* cleared, when a channel is selected whose id differs from currentChannelId;
\* selecting no channel, or coming back from no channel to the channel of
\* currentChannelId, leaves the setting, the timer and the memory as they
\* are.  The setting comes on again only by being turned on, and
\* scrollToTimestamp is not called while it is off.
C25_Step ==
    /\ (enabled /\ selectedChannel' # selectedChannel) =>
           IF Truthy(selectedChannel') /\ selectedChannel' # currentChannelId
           THEN /\ ~enabled'
                /\ StoppedAndCleared'
                /\ currentChannelId' = selectedChannel'
           ELSE /\ enabled'
                /\ timers' = timers /\ checkInterval' = checkInterval
                /\ resolverVars' = resolverVars
                /\ lastFetchedTimestamp' = lastFetchedTimestamp
                /\ currentChannelId' = currentChannelId
    /\ (~enabled /\ enabled') => tick'.kind = "enable"
    /\ ~enabled' => (timers' = {} /\ tick'.ticks = 0)

C25_OtherChannelDisables == [][C25_Step]_vars

\* With a target held and a fetch in progress, the second channel was
\* selected and the setting went off.
C25_Witness ==
    /\ tick.kind = "switched off"
    /\ selectedChannel = JStr(<<"c", "2">>)
    /\ currentChannelId = selectedChannel
    /\ ~enabled /\ StoppedAndCleared
    /\ Len(fetching) = 1
    /\ lastMove # Null

(***************************************************************************)
(* The life of the HTTP server: startServer, stopServer, the two requests  *)
(* of the renderer process, and the server's "error" event.                *)
(***************************************************************************)
MaxCalls == 2

Ports == {8080, 8081, 70000}

\* server.listen throws for a port outside 0..65535; for any other port it
\* returns, and a failed bind is reported later by an "error" event.
ValidPort(port) == port >= 0 /\ port < 65536

\* The instances that accept connections.
ListeningIn(is) == {i \in DOMAIN is : is[i].state = "listening"}

Listening == ListeningIn(instances)

\* The instances whose bind has failed and whose "error" event is due.
Failing == {i \in DOMAIN instances : instances[i].state = "failing"}

\* The port is taken, by another process or by a listener of this one.
Occupied(is, port) ==
    port \in busy \/ \E i \in ListeningIn(is) : is[i].port = port

\* The module variables startServer and stopServer read and write.
Service(s, port, is, data, lu, redirect) ==
    [server |-> s, currentPort |-> port, instances |-> is,
     timestampData |-> data, lastUpdate |-> lu, redirectTimestamp |-> redirect]

Current == Service(server, currentPort, instances,
                   timestampData, lastUpdate, redirectTimestamp)

stopServerKeepsLastUpdate(s) ==
    IF Truthy(s.server)
    THEN [s EXCEPT !.instances[s.server.n].state =
                       IF @ = "listening" THEN "closed" ELSE @,
                   !.server = Null,
                   !.timestampData = Null,
                   !.redirectTimestamp = Null]
    ELSE s

stopServer(s) ==
    IF Truthy(s.server)
    THEN [s EXCEPT !.instances[s.server.n].state =
                       IF @ = "listening" THEN "closed" ELSE @,
                   !.server = Null,
                   !.timestampData = Null,
                   !.lastUpdate = Null,
                   !.redirectTimestamp = Null]
    ELSE s

\* createServer and listen: the new instance, bound or not, and whether
\* listen threw.
Listen(s, port) ==
    LET i == Len(s.instances) + 1
    IN  IF ~ValidPort(port)
        THEN [state |-> [s EXCEPT !.currentPort = port,
                                  !.instances = Append(@, [port |-> port,
                                                           state |-> "failed"]),
                                  !.server = Null],
              threw |-> TRUE]
        ELSE [state |-> [s EXCEPT !.currentPort = port,
                                  !.instances =
                                      Append(@, [port |-> port,
                                                 state |-> IF Occupied(s.instances, port)
                                                           THEN "failing"
                                                           ELSE "listening"]),
                                  !.server = JNum(i)],
              threw |-> FALSE]

startServer(s, port) ==
    LET stopped == IF Truthy(s.server) /\ s.currentPort # port
                   THEN stopServer(s) ELSE s
    IN  IF Truthy(stopped.server)
        THEN [state |-> stopped, threw |-> FALSE]
        ELSE Listen(stopped, port)

onErrorKeepsHandle(code, s) == s

\* The "error" listener of an instance.
onError(code, s) ==
    IF code = "EADDRINUSE" THEN Null ELSE Null

\* The module variables take the values startServer or stopServer left.
Assign(s) ==
    /\ server' = s.server
    /\ currentPort' = s.currentPort
    /\ instances' = s.instances
    /\ timestampData' = s.timestampData
    /\ lastUpdate' = s.lastUpdate
    /\ redirectTimestamp' = s.redirectTimestamp

\* The renderer asks for a start.  The reply carries success and port; the
\* instance it is about is recorded with it.
StartServerIPC(port) ==
    /\ calls < MaxCalls
    /\ Failing = {}
    /\ calls' = calls + 1
    /\ LET r == startServer(Current, port)
       IN  /\ Assign(r.state)
           /\ reply' = [op |-> "start", success |-> ~r.threw,
                        port |-> r.state.currentPort,
                        instance |-> IF Len(r.state.instances) > Len(instances)
                                     THEN Len(r.state.instances)
                                     ELSE r.state.server.n]
    /\ UNCHANGED <<now, inflight, nreq, nresp, last, hist, lastPush, busy,
                   resolverVars, validatorVars, driverVars, streamVars>>

\* The renderer asks for a stop.
StopServerIPC ==
    /\ calls < MaxCalls
    /\ Failing = {}
    /\ calls' = calls + 1
    /\ Assign(stopServer(Current))
    /\ reply' = [op |-> "stop", success |-> TRUE, port |-> 0, instance |-> 0]
    /\ UNCHANGED <<now, inflight, nreq, nresp, last, hist, lastPush, busy,
                   resolverVars, validatorVars, driverVars, streamVars>>

\* The bind of an instance failed: its "error" event, on the next tick.
BindError(i) ==
    /\ i \in Failing
    /\ instances' = [instances EXCEPT ![i].state = "failed"]
    /\ server' = onError("EADDRINUSE", server)
    /\ UNCHANGED <<relayVars, currentPort, busy, reply, calls,
                   resolverVars, validatorVars, driverVars, streamVars>>

\* A listening instance emits "error" (an accept that failed): it goes on
\* listening.
ServerError(i) ==
    /\ Failing = {}
    /\ i \in Listening
    /\ server' = onError("EMFILE", server)
    /\ UNCHANGED <<relayVars, currentPort, instances, busy, reply, calls,
                   resolverVars, validatorVars, driverVars, streamVars>>

\* Which branch of the request listener a request takes.
Route(req) ==
    IF req.method = "OPTIONS" THEN "options"
    ELSE IF req.url \in {"/ping", "/ping/"} /\ req.method = "GET" THEN "ping"
    ELSE IF req.url = "/update" /\ req.method = "POST" THEN "update"
    ELSE IF req.url = "/redirect" /\ req.method = "POST" THEN "redirect"
    ELSE "notfound"

\* OPTIONS: 200 with no body
Preflight(data, lu, redirect) == Outcome(200, Null, data, lu, redirect)

NotFoundClearsData(data, lu, redirect) ==
    Outcome(404, ErrorBody("Not found"), Null, Null, redirect)

\* 404 for other paths
NotFound(data, lu, redirect) ==
    Outcome(404, ErrorBody("Not found"), data, lu, redirect)

ServiceRequests ==
    {[method |-> "GET", url |-> "/ping", body |-> Null],
     [method |-> "POST", url |-> "/update", body |-> RecordA],
     [method |-> "POST", url |-> "/update", body |-> Malformed],
     [method |-> "POST", url |-> "/redirect", body |-> Malformed],
     [method |-> "POST", url |-> "/redirect",
      body |-> JObj([timestamp |-> JStr(StrZuluB)])],
     [method |-> "OPTIONS", url |-> "/update", body |-> Null],
     [method |-> "POST", url |-> "/ping", body |-> RecordA]}

\* A request answered before any body is read: OPTIONS, or no route.
Other(req) ==
    /\ nreq < MaxRequests
    /\ Route(req) \in {"options", "notfound"}
    /\ nreq' = nreq + 1
    /\ Apply(req, IF Route(req) = "options"
                  THEN Preflight(timestampData, lastUpdate, redirectTimestamp)
                  ELSE NotFound(timestampData, lastUpdate, redirectTimestamp))
    /\ UNCHANGED <<now, inflight, hist, lastPush, resolverVars, validatorVars,
                   driverVars, serviceVars, streamVars>>

\* A connection is accepted by an instance that listens.
Accepts == Failing = {} /\ Listening # {}

\* The module is loaded: the first startServer(DEFAULT_PORT) has returned,
\* on a port that is free or taken.
InitService ==
    /\ RelayIdle
    /\ ResolverIdle
    /\ ValidatorIdle
    /\ DriverIdle
    /\ NoChannel
    /\ busy \in {{}, {DEFAULT_PORT}}
    /\ LET r == startServer(Service(Null, DEFAULT_PORT, <<>>, Null, Null, Null),
                            DEFAULT_PORT)
       IN  /\ server = r.state.server
           /\ currentPort = r.state.currentPort
           /\ instances = r.state.instances
    /\ reply = NoReply
    /\ calls = 0
    /\ StreamsIdle

NextService ==
    \/ \E port \in Ports : StartServerIPC(port)
    \/ StopServerIPC
    \/ \E i \in DOMAIN instances : BindError(i)
    \/ \E i \in DOMAIN instances : ServerError(i)
    \/ \E req \in ServiceRequests : Accepts /\ Route(req) = "ping" /\ Ping(req)
    \/ \E req \in ServiceRequests :
          Accepts /\ Route(req) \in {"update", "redirect"} /\ ReceivePost(req)
    \/ \E req \in ServiceRequests : Accepts /\ Other(req)
    \/ \E r \in ServiceRequests : Failing = {} /\ EndUpdate(r)
    \/ \E r \in ServiceRequests : Failing = {} /\ EndRedirect(r)

SpecService == InitService /\ [][NextService]_vars

\* C21: a start request whose bind fails returns failure; success is never
\* reported for an instance that did not bind.
C21_FailedBindReportsFailure ==
    (reply.op = "start" /\ reply.success)
        => instances[reply.instance].state \notin {"failing", "failed"}

\* C22: when a bind fails the service ends with no handle, and no instance is
\* made (no bind attempted) except by a start request.
C22_FailedBindEndsStopped ==
    [][/\ (Len(instances') > 0 /\ instances'[Len(instances')].state = "failed")
              => server' = Null
       /\ Len(instances') > Len(instances)
              => (calls' = calls + 1 /\ reply'.op = "start")]_vars

C22_Witness ==
    /\ reply.op = "start"
    /\ ValidPort(reply.port)
    /\ instances[reply.instance].state = "failed"
    /\ server = Null

\* C23: at most one instance of the service listens at any time.
C23_OneListener == Cardinality(Listening) <= 1

\* C24: a start that follows a stop begins with an empty RelayState, whatever
\* requests were in progress when the stop was made.
C24_EmptyAfterRestart ==
    [][(reply.op = "stop" /\ Len(instances') > Len(instances))
           => (timestampData' = Null /\ lastUpdate' = Null
               /\ redirectTimestamp' = Null)]_vars

\* C27: OPTIONS is answered 200 on any path, a request with no route 404
\* "Not found", a POST /update or /redirect whose body is not JSON 400; none
\* of them changes RelayState, and the service goes on as it was.
C27_Answered ==
    nresp' = nresp + 1 =>
        LET req == last'.req
        IN  /\ Route(req) = "options" => (last'.status = 200 /\ last'.body = Null)
            /\ Route(req) = "notfound"
                   => (last'.status = 404 /\ last'.body = ErrorBody("Not found"))
            /\ (Route(req) \in {"update", "redirect"} /\ req.body = Malformed)
                   => (last'.status = 400
                       /\ last'.body = ErrorBody("Invalid JSON data"))
            /\ (\/ Route(req) \in {"options", "notfound"}
                \/ (Route(req) \in {"update", "redirect"} /\ req.body = Malformed))
                   => (/\ RelayState' = RelayState
                       /\ serviceVars' = serviceVars)

C27_OtherRequests == [][C27_Answered]_vars

C27_Witness ==
    /\ Route(last.req) = "notfound"
    /\ last.status = 404
    /\ timestampData # Null
    /\ Listening # {}

(***************************************************************************)
(* POST bodies that arrive in chunks, several requests at a time.  Each    *)
(* request has its own `body` (part_000:90, 135); a "data" event appends   *)
(* to it and the "end" event parses it.                                    *)
(***************************************************************************)
MaxStreams == 3

StreamBodies == {RecordA, JObj([timestamp |-> JStr(StrZulu)])}

StreamRequests ==
    {[url |-> "/update", body |-> RecordA],
     [url |-> "/redirect", body |-> JObj([timestamp |-> JStr(StrZulu)])]}

\* JSON.stringify at the client: the text, as the chunks it is sent in.
Stringify(value) == <<[of |-> value, part |-> 1], [of |-> value, part |-> 2]>>

\* JSON.parse: the value of a whole text; any other text is not JSON.
JSONparse(text) ==
    IF \E value \in StreamBodies : text = Stringify(value)
    THEN (CHOOSE value \in StreamBodies : text = Stringify(value))
    ELSE Malformed

onDataSharedBody(ss, i, chunk) ==
    [j \in DOMAIN ss |->
        IF ss[j].state = "open" THEN [ss[j] EXCEPT !.body = Append(@, chunk)]
        ELSE ss[j]]

\* req.on("data", chunk => { body += chunk.toString(); })
onData(ss, i, chunk) == [ss EXCEPT ![i].body = Append(@, chunk)]

\* The number of chunks of request i that have arrived.
Received(i) == streams[i].got

\* A "data" event of request i is counted; the requests that are between
\* two chunks of their own have had their chunks mixed with another's.
Count(ss, i) ==
    [j \in DOMAIN ss |->
        IF j = i THEN [ss[j] EXCEPT !.got = @ + 1]
        ELSE IF ss[j].state = "open" /\ ss[j].got > 0 /\ ss[j].got < Len(Stringify(ss[j].sent))
        THEN [ss[j] EXCEPT !.mixed = TRUE]
        ELSE ss[j]]

\* The handler for the url, run on a body.
Handle(url, body, data, lu, redirect, t) ==
    IF url = "/update" THEN UpdateHandler(body, data, lu, redirect, t)
    ELSE RedirectHandler(body, data, lu, redirect, t)

InitChunks ==
    /\ RelayIdle
    /\ ResolverIdle
    /\ ValidatorIdle
    /\ DriverIdle
    /\ NoChannel
    /\ ServiceRunning
    /\ StreamsIdle

\* The head of a POST request arrives: let body = "".
Open(url, value) ==
    /\ Len(streams) < MaxStreams
    /\ streams' = Append(streams, [url |-> url, sent |-> value,
                                   body |-> <<>>,
                                   got |-> 0, mixed |-> FALSE,
                                   state |-> "open"])
    /\ UNCHANGED <<relayVars, serial, resolverVars, validatorVars,
                   driverVars, serviceVars>>

\* A chunk of the body of request i arrives.
Data(i) ==
    /\ streams[i].state = "open"
    /\ Received(i) < Len(Stringify(streams[i].sent))
    /\ streams' = Count(onData(streams, i, Stringify(streams[i].sent)[Received(i) + 1]), i)
    /\ UNCHANGED <<relayVars, serial, resolverVars, validatorVars, driverVars,
                   serviceVars>>

\* The body of request i has arrived whole: its "end" event.
End(i) ==
    /\ streams[i].state = "open"
    /\ Received(i) = Len(Stringify(streams[i].sent))
    /\ streams' = [streams EXCEPT ![i].state = "ended"]
    /\ LET req == [method |-> "POST", url |-> streams[i].url,
                   body |-> streams[i].sent]
       IN  /\ Apply(req, Handle(streams[i].url, JSONparse(streams[i].body),
                                timestampData, lastUpdate, redirectTimestamp, now))
           /\ LET out == Handle(streams[i].url, streams[i].sent,
                                serial.timestampData, serial.lastUpdate,
                                serial.redirectTimestamp, now)
              IN  serial' = [timestampData |-> out.timestampData,
                             lastUpdate |-> out.lastUpdate,
                             redirectTimestamp |-> out.redirectTimestamp,
                             status |-> out.status, body |-> out.body]
    /\ UNCHANGED <<now, inflight, nreq, hist, lastPush, resolverVars,
                   validatorVars, driverVars, serviceVars>>

\* The client of request i goes away before its body is whole: no "end".
Abort(i) ==
    /\ streams[i].state = "open"
    /\ Received(i) < Len(Stringify(streams[i].sent))
    /\ streams' = [streams EXCEPT ![i].state = "aborted"]
    /\ UNCHANGED <<relayVars, serial, resolverVars, validatorVars,
                   driverVars, serviceVars>>

NextChunks ==
    \/ \E req \in StreamRequests : Open(req.url, req.body)
    \/ \E i \in DOMAIN streams : Data(i)
    \/ \E i \in DOMAIN streams : End(i)
    \/ \E i \in DOMAIN streams : Abort(i)

SpecChunks == InitChunks /\ [][NextChunks]_vars

\* C28: with the chunks of concurrent POST requests interleaved, a request
\* takes effect when its own body ends and not before; state and responses
\* are those of the requests run one after the other in the order their
\* bodies ended; a request whose body does not end changes nothing.
C28_Step ==
    /\ nresp' = nresp => RelayState' = RelayState
    /\ nresp' # nresp =>
           /\ \E i \in DOMAIN streams :
                  /\ streams[i].state = "open" /\ streams'[i].state = "ended"
                  /\ Received(i) = Len(Stringify(streams[i].sent))
           /\ last'.status = serial'.status
           /\ last'.body = serial'.body
    /\ RelayState' = <<serial'.timestampData, serial'.lastUpdate,
                       serial'.redirectTimestamp>>
    /\ \A i \in DOMAIN streams :
           streams[i].state = "aborted" => streams'[i] = streams[i]

C28_Serializable == [][C28_Step]_vars

\* Two requests whose chunks alternated, both answered 200, the one that
\* began first ended last.
C28_Witness ==
    /\ Len(streams) = MaxStreams
    /\ streams[1].mixed /\ streams[2].mixed
    /\ streams[1].state = "ended" /\ streams[2].state = "ended"
    /\ streams[1].url = "/update" /\ streams[2].url = "/redirect"
    /\ last.req.url = "/update" /\ last.status = 200
    /\ Get(last.body, "redirect") # Undefined
    /\ \E i \in DOMAIN streams : streams[i].state = "aborted"

(***************************************************************************)
(* The relay with a producer that goes on pushing: the userscript sends    *)
(* its record on a timer (user.js:259-266, 331-358), the plugin reads and  *)
(* sets redirects in between.  Requests are not counted here.              *)
(***************************************************************************)
ValidRecords == {RecordA, RecordB}

RedirectValues == {JStr(StrZulu), JStr(StrZuluB)}

\* res.writeHead / res.end, and the assignments the handler made.
Answer(req, out) ==
    /\ timestampData' = out.timestampData
    /\ lastUpdate' = out.lastUpdate
    /\ redirectTimestamp' = out.redirectTimestamp
    /\ last' = [req |-> req, status |-> out.status, body |-> out.body, at |-> now]
    /\ UNCHANGED <<now, inflight, nreq, nresp, hist, lastPush, resolverVars,
                   validatorVars, driverVars, serviceVars, streamVars>>

\* The body of a POST /update ends.
Push(body) ==
    Answer([method |-> "POST", url |-> "/update", body |-> body],
           UpdateHandler(body, timestampData, lastUpdate, redirectTimestamp, now))

\* The body of a POST /redirect ends.
SetRedirect(body) ==
    Answer([method |-> "POST", url |-> "/redirect", body |-> body],
           RedirectHandler(body, timestampData, lastUpdate, redirectTimestamp, now))

\* GET /ping
Read ==
    Answer([method |-> "GET", url |-> "/ping", body |-> Null],
           PingHandler(timestampData, lastUpdate, redirectTimestamp, now))

\* The producer's timer fires and its record, a valid one, is accepted.
ProducerPush ==
    \E body \in ValidRecords :
        Answer([method |-> "POST", url |-> "/update", body |-> body],
               UpdateAccept(body, redirectTimestamp, now))

NextDelivery ==
    \/ \E body \in UpdateBodies : Push(body)
    \/ \E body \in RedirectBodies : SetRedirect(body)
    \/ Read
    \/ \E t \in Instants : Advance(t)

SpecDelivery == Init /\ [][NextDelivery]_vars /\ WF_vars(ProducerPush)

\* The response of an accepted push carries the redirect x.
Delivered(x) ==
    /\ last.req.url = "/update"
    /\ last.status = 200
    /\ Get(last.body, "redirect") = x

\* C31: a redirect that was accepted is delivered in the response of a push,
\* unless another redirect replaces it first, when valid records go on being
\* pushed; and the push that delivers it is the first one accepted after it.
C31_EventuallyDelivered ==
    /\ [][(/\ last' # last
           /\ last'.req.url = "/update" /\ last'.status = 200
           /\ Truthy(redirectTimestamp))
              => (/\ Get(last'.body, "redirect") = redirectTimestamp
                  /\ redirectTimestamp' = Null)]_vars
    /\ \A x \in RedirectValues :
           (redirectTimestamp = x)
               ~> (Delivered(x) \/ redirectTimestamp \notin {x, Null})

\* The second record was pushed late and its response carried the redirect.
C31_Witness ==
    /\ Delivered(JStr(StrZuluB))
    /\ last.req.body = RecordB
    /\ last.at = 12000
    /\ redirectTimestamp = Null
    /\ timestampData = RecordB

(***************************************************************************)
(* The polling loop while the setting stays on and the messages of the     *)
(* channel stay the same: no Disable, no CHANNEL_SELECT, no new messages.  *)
(* SpecMoves lets the relay answer with any gmt; SpecForward only with a   *)
(* gmt that is not earlier than the target the loop holds.                 *)
(***************************************************************************)
\* The gmt values of the relay, and one more than a second after the last.
MoveTimes == DriverTimes \cup {3002}

MoveResponses ==
    FetchResponses
        \cup {Response(TRUE, JObj([gmt |-> JStr(ToISOString(t)),
                                   currentTime |-> JNum(12)])) : t \in MoveTimes}

\* A message without timestamp between two with one.
FeedGap ==
    <<[id |-> "a", timestamp |-> <<990>>], [id |-> "b", timestamp |-> <<>>],
      [id |-> "c", timestamp |-> <<1990>>]>>

\* Two messages of the same millisecond.
FeedTie ==
    <<[id |-> "a", timestamp |-> <<990>>], [id |-> "b", timestamp |-> <<1990>>],
      [id |-> "c", timestamp |-> <<1990>>]>>

\* The messages of the channel, oldest first.
MoveFeeds == {FeedEarly, FeedLate, FeedGap, FeedTie}

\* The plugin has started with the setting off and a channel selected.
InitMoves ==
    /\ RelayIdle
    /\ ValidatorIdle
    /\ DriverIdle
    /\ ServiceRunning
    /\ StreamsIdle
    /\ selectedChannel = JStr(<<"c", "1">>)
    /\ currentChannelId = selectedChannel
    /\ feed \in MoveFeeds
    /\ targetTimestamp = Null
    /\ lastScrolledMessageId = Null
    /\ lastTargetTime = Null
    /\ result = Pending

NextMoves ==
    \/ Enable
    \/ \E id \in timers : Tick(id)
    \/ \E k \in 1..MaxFetches, response \in MoveResponses : FetchDone(k, response)
    \/ \E open \in BOOLEAN : ContextMenu(open)

SpecMoves == InitMoves /\ [][NextMoves]_vars

\* The gmt of the response, when it has one, is not before the target held.
NonDecreasing(response) ==
    LET gmt == Get(fetchTimestamp(response), "gmt")
    IN  (Truthy(gmt) /\ lastTargetTime # Null)
            => GetTime(DateParse(gmt.s)) >= lastTargetTime.n

\* A fetch settles with a target that has not gone back.
FetchLater(k, response) == NonDecreasing(response) /\ FetchDone(k, response)

NextForward ==
    \/ Enable
    \/ \E id \in timers : Tick(id)
    \/ \E k \in 1..MaxFetches, response \in MoveResponses : FetchLater(k, response)
    \/ \E open \in BOOLEAN : ContextMenu(open)

SpecForward == InitMoves /\ [][NextForward]_vars

\* The place of the message with this id among the messages of the channel.
FeedIndex(id) == FindIndex(feed, id.lit)

\* C32: with the messages in ascending order and targets that do not go
\* back, a move is never to a message before the one of the previous move.
C32_NoBackwardMove ==
    [][(tick'.moved # Null /\ lastMove # Null)
           => FeedIndex(tick'.moved) >= FeedIndex(lastMove)]_vars

\* After a move to a, the target went on and the loop moved to c.
C32_Witness ==
    /\ tick.kind = "fetched" /\ tick.lsid = JText("a")
    /\ tick.moved = JText("c")
    /\ tick.from = JNum(1000)
    /\ feed[2].timestamp = <<>>

\* C33 as claimed: two moves in a row are never to the same message.
C33_NeverSameTwice ==
    [][tick'.moved # Null => tick'.moved # lastMove]_vars

\* C33: a move is never to the message lastScrolledMessageId names, so two
\* moves in a row are to the same message only when lastScrolledMessageId
\* was cleared in between; and while the setting stays on it is cleared only
\* by a callback whose new gmt is more than 1000 ms after the previous
\* target.
C33_SameOnlyAfterReset ==
    [][/\ tick'.moved # Null =>
              /\ tick'.moved # tick'.lsid
              /\ tick'.moved = lastMove => tick'.lsid = Null
       /\ (/\ tick'.kind = "fetched"
           /\ lastScrolledMessageId # Null
           /\ tick'.lsid = Null) =>
              /\ tick'.changed
              /\ lastTargetTime'.n > lastTargetTime.n + 1000]_vars

\* A move to b, and after a gmt 1002 ms later a move to b again.
C33_Witness ==
    /\ tick.kind = "fetched" /\ tick.changed
    /\ tick.from = JNum(2000)
    /\ lastTargetTime = JNum(3002)
    /\ tick.lsid = Null
    /\ tick.moved = JText("b")
    /\ feed = FeedEarly

\* C34 as claimed: while an instance listens the handle is present, no
\* "error" event having cleared the handle of an instance that still listens.
C34_BoundImpliesHandle == Listening # {} => Truthy(server)

\* C35: the record and the time of its receipt are present together, the gmt
\* of the record is a valid timestamp, and the pending redirect is absent or
\* a valid timestamp.
C35_RelayStateWellFormed ==
    /\ (timestampData # Null) <=> (lastUpdate # Null)
    /\ timestampData # Null => isValidTimestamp(Get(timestampData, "gmt"))
    /\ redirectTimestamp = Null \/ isValidTimestamp(redirectTimestamp)

\* After a stop and a start the service holds a record, the time of its
\* receipt and a pending redirect.
C35_Witness ==
    /\ reply.op = "start" /\ calls = MaxCalls
    /\ Listening # {}
    /\ timestampData = RecordA
    /\ lastUpdate # Null
    /\ redirectTimestamp = JStr(StrZuluB)

=============================================================================
